---- MODULE Spec2Model ----
(***************************************************************************)
(* A model of the Protonium tree-walking interpreter (src/src/Interpreter  *)
(* .cpp).  The evaluator is a recursive visitor; here every visit method   *)
(* is an operator from an evaluator state to an evaluator state, and the   *)
(* C++ exceptions (RuntimeError, BreakThrow, ContinueThrow) are the `sig`  *)
(* field of that state: a visit that finds sig # "ok" after a sub-visit    *)
(* returns at once, which is what stack unwinding does, and the try/catch  *)
(* blocks of the source are the places that reset sig.                     *)
(*                                                                         *)
(* Numbers are long doubles in the source.  The model counts them in ticks *)
(* of 1/Unit, so that values which are no integers, and values closer to   *)
(* an integer than epsilon, exist: lround and the epsilon tests are then   *)
(* computed as the source computes them.                                   *)
(***************************************************************************)
EXTENDS Integers, Sequences, FiniteSets, TLC

VARIABLES
    envs,        \* the chain of live Environments; envs[1] is m_global
    m_env,       \* Interpreter::m_env, an index into envs
    heap,        \* the list_t objects that list values point to
    m_val,       \* Interpreter::m_val
    hadRuntimeError, \* Proto::m_hitRuntimeError
    run,         \* history: the entry that ran last and what was observed in it
    lexer,       \* the Lexer of the entry being read: its members, and history
    parser,      \* the Parser of the entry being read: its members, and history
    rangeEval    \* the range expression being evaluated: the locals of its visit

vars == <<envs, m_env, heap, m_val, hadRuntimeError, run, lexer, parser, rangeEval>>

\* a visit(const RangeExpr&) whose operands evaluated to the numbers first,
\* step (if hasStep) and end: i and rangeList are its locals, at is where it
\* is: before the check of the step, in the loop, returned, or thrown
NewRange(first, hasStep, step, end) ==
    [first |-> first, hasStep |-> hasStep, step |-> step, end |-> end,
     i |-> first, rangeList |-> <<>>, at |-> "checks"]

\* no range expression is being evaluated
NoRange == [NewRange(0, FALSE, 0, 0) EXCEPT !.at = "none"]

\* a Lexer: m_src, m_current, m_start, m_line and m_tokens are its members;
\* errors are the calls of Proto::error it made, steps the values of
\* m_current at which scanToken was called, done says that scanTokens returned
NewLexer(src) ==
    [m_src |-> src, m_current |-> 0, m_start |-> 0, m_line |-> 1, m_tokens |-> <<>>,
     errors |-> <<>>, steps |-> <<>>, done |-> FALSE]

\* no source is being read
NoLexer == NewLexer(<<>>)

\* a token
Tok(type, lexeme, ltype) == [type |-> type, lexeme |-> lexeme, line |-> 1, ltype |-> ltype]

EOFToken == Tok("EOF_", <<>>, "NONE")

\* no statement and no expression (nullptr)
Null == [k |-> "none"]

\* a Parser: m_tokens, m_current, m_allowExpr, m_foundExpr and m_loopDepth are
\* its members.  sig is "error" while a ParseError is in flight, node what the
\* production that ran last returned, errors the calls of Proto::error;
\* statements is the vector that parse() fills, result what it returned
\* ("none" while it runs), parseRepl the argument it was constructed with.
\* History: jumps notes every break and continue statement, loops every
\* loop body, calls every call of statement().
NewParser(tokens, parseRepl) ==
    [m_tokens |-> tokens, m_current |-> 0, m_allowExpr |-> parseRepl,
     m_foundExpr |-> FALSE, m_loopDepth |-> 0, parseRepl |-> parseRepl,
     sig |-> "ok", node |-> Null, errors |-> <<>>,
     statements |-> <<>>, result |-> "none", expr |-> Null,
     jumps |-> <<>>, loops |-> <<>>, calls |-> <<>>]

\* no tokens are being parsed
NoParser == NewParser(<<EOFToken>>, FALSE)

(***************************************************************************)
(* Bounds of the model.                                                    *)
(***************************************************************************)
Unit == 4        \* ticks per 1.0
MaxIter == 3     \* loop iterations followed before a run is given up
MaxNest == 2     \* depth of nested blocks / if-branches in generated bodies
MaxLen == 2      \* length of list literals
MaxLists == 4    \* list objects alive in a session
MaxEnvs == 3     \* environments alive in a session

(***************************************************************************)
(* epsilon, in ticks (1e-12 in the language's documentation): less than    *)
(* half a unit, more than one tick.                                        *)
(***************************************************************************)
epsilon == 2

Names == {"x", "y"}

(***************************************************************************)
(* Value: std::variant of nullptr_t, bool, long double, std::string,       *)
(* list_ptr, Callable_ptr.  t is the alternative held (what index()        *)
(* tells), v its payload: 0/1 for a bool, ticks for a number, an id for a  *)
(* string, a heap index for a list.                                        *)
(***************************************************************************)
Nix == [t |-> "nix", v |-> 0]
Bool(b) == [t |-> "bool", v |-> IF b THEN 1 ELSE 0]
Num(ticks) == [t |-> "num", v |-> ticks]
Str(id) == [t |-> "str", v |-> id]
ListRef(r) == [t |-> "list", v |-> r]
Unbound == [t |-> "unbound", v |-> 0]
\* a Callable_ptr to a ProtoFunction of `arity` parameters
Callable(arity) == [t |-> "fn", v |-> arity]

isNum(val) == val.t = "num"
isNix(val) == val.t = "nix"
isStr(val) == val.t = "str"
isBool(val) == val.t = "bool"
isList(val) == val.t = "list"
isCallable(val) == val.t = "fn"

Abs(n) == IF n < 0 THEN -n ELSE n

\* isEqual(long double, long double)
isEqualNum(left, right) == Abs(left - right) < epsilon

isTrue(val) ==
    IF isNix(val) THEN FALSE
    ELSE IF isBool(val) THEN val.v = 1
    ELSE IF isNum(val) /\ isEqualNum(val.v, 0) THEN FALSE
    ELSE TRUE

\* std::lround of a number given in ticks: the nearest integer, halves away
\* from zero.
lround(d) ==
    IF d >= 0 THEN (2 * d + Unit) \div (2 * Unit)
    ELSE -((2 * (-d) + Unit) \div (2 * Unit))

\* std::fabs(d - std::lround(d)) < epsilon
isIntegral(d) == Abs(d - lround(d) * Unit) < epsilon

(***************************************************************************)
(* The syntax tree.  depth is the entry of m_locals for the node, NoDepth  *)
(* when the resolver recorded none.                                        *)
(***************************************************************************)
NoDepth == -1
NoExpr == [k |-> "none"]

Literal(val) == [k |-> "Literal", val |-> val]
Variable(name, depth) == [k |-> "Variable", name |-> name, depth |-> depth]
Assign(name, op, depth, val) ==
    [k |-> "Assign", name |-> name, op |-> op, depth |-> depth, val |-> val]
ParenGroup(enclosedExpr) == [k |-> "ParenGroup", enclosedExpr |-> enclosedExpr]
Binary(left, op, right) == [k |-> "Binary", left |-> left, op |-> op, right |-> right]
Logical(left, op, right) == [k |-> "Logical", left |-> left, op |-> op, right |-> right]
ListExpr(exprs) == [k |-> "ListExpr", exprs |-> exprs]
Index(list, index) == [k |-> "Index", list |-> list, index |-> index]
RangeExpr(first, step, end) ==
    [k |-> "RangeExpr", first |-> first, step |-> step, end |-> end]
IndexAssign(list, index, val) ==
    [k |-> "IndexAssign", list |-> list, index |-> index, val |-> val]
InExpr(name, depth, iterable) ==
    [k |-> "InExpr", name |-> name, depth |-> depth, iterable |-> iterable]
Call(callee, args) == [k |-> "Call", callee |-> callee, args |-> args]
Lambda(params, body) == [k |-> "Lambda", params |-> params, body |-> body]
Unary(op, right) == [k |-> "Unary", op |-> op, right |-> right]

Expression(expr) == [k |-> "Expression", expr |-> expr]
Block(stmts) == [k |-> "Block", stmts |-> stmts]
If(cond, thenBranch, elseBranch) ==
    [k |-> "If", cond |-> cond, thenBranch |-> thenBranch, elseBranch |-> elseBranch]
While(cond, body) == [k |-> "While", cond |-> cond, body |-> body]
For(init, cond, incr, body) ==
    [k |-> "For", init |-> init, cond |-> cond, incr |-> incr, body |-> body]
RangedFor(inexpr, body) == [k |-> "RangedFor", inexpr |-> inexpr, body |-> body]
Break == [k |-> "Break"]
Continue == [k |-> "Continue"]
Func(name, params, body) == [k |-> "Func", name |-> name, params |-> params, body |-> body]
Return(val) == [k |-> "Return", val |-> val]
NoStmt == [k |-> "none"]

(***************************************************************************)
(* Environment (includes/Environment.hpp): a scope maps names to values;   *)
(* since every new scope is made a child of the current one and becomes    *)
(* the current one, the live scopes are a stack and the parent of envs[i]  *)
(* is envs[i-1].                                                           *)
(***************************************************************************)
EmptySlots == [n \in Names |-> Unbound]

\* The evaluator state threaded through the visit.
\*   sig      "ok", or the exception in flight: "error", "break", "continue",
\*            and "fuel" once MaxIter iterations of one loop were followed
\*   ub       the outcome this run gets from a read outside a vector
\*   raised   a RuntimeError was thrown in this run
\*   after    a statement or expression was evaluated after that throw
\*   reports  calls of Proto::runtimeError made by executeBlock / by interpret
\*   began    m_env at the start of the body iteration a break is leaving
\*   catches  one record per break/continue caught by a loop
\*   unwinds  one record per RuntimeError that left a frame owning a scope
\*   assigns  one record per Assign node visited
\*   rhs      evaluations of a Logical node's right operand
Start(ub) ==
    [envs |-> envs, m_env |-> m_env, heap |-> heap, m_val |-> m_val,
     hit |-> hadRuntimeError, sig |-> "ok", ub |-> ub,
     raised |-> FALSE, after |-> FALSE, blockReports |-> 0, topReports |-> 0,
     began |-> 0, catches |-> <<>>, unwinds |-> <<>>, assigns |-> <<>>, rhs |-> 0]

\* throw RuntimeError(...)
Throw(s) == [s EXCEPT !.sig = "error", !.raised = TRUE]

\* Environment::assign
assign(s, env, name, val) == [s EXCEPT !.envs[env][name] = val]

\* Environment::assignAt: assign in the dist-th ancestor
assignAt(s, env, name, val, dist) == assign(s, env - dist, name, val)

\* Environment::strictAssign: the name must be bound in this scope
strictAssign(s, env, name, val) ==
    IF s.envs[env][name] = Unbound THEN Throw(s)
    ELSE assign(s, env, name, val)

\* Environment::strictAssignAt
strictAssignAt(s, env, name, val, dist) == strictAssign(s, env - dist, name, val)

\* Environment::get / getAt: a RuntimeError when the name is not bound there
get(s, env, name) ==
    IF s.envs[env][name] = Unbound THEN Throw(s)
    ELSE [s EXCEPT !.m_val = s.envs[env][name]]

m_global == 1

\* Expr::accept and Stmt::accept: the visit method of the node's class
RECURSIVE accept(_, _)

\* expr->accept(this): the evaluation of a sub-expression
Eval(e, s) == accept(e, s)

\* one step of a method after another: K applied to what the step before left
Then(x, K(_)) == K(x)

\* Interpreter::execute
Exec(stmt, s) == accept(stmt, s)

\* Interpreter::lookUpVariable and visit(const Variable&)
visitVariable(e, s) ==
    IF e.depth = NoDepth THEN get(s, m_global, e.name)
    ELSE get(s, s.m_env - e.depth, e.name)

\* visit(const Logical&), with the right operand always evaluated
visitLogicalEager(e, s) ==
    Then(Eval(e.left, s), LAMBDA l :
        IF l.sig # "ok" THEN l
        ELSE Then(Eval(e.right, [l EXCEPT !.rhs = @ + 1]), LAMBDA r :
            IF r.sig # "ok" THEN r
            ELSE IF e.op = "OR"
                 THEN [r EXCEPT !.m_val = Bool(isTrue(l.m_val) \/ isTrue(r.m_val))]
                 ELSE [r EXCEPT !.m_val = Bool(isTrue(l.m_val) /\ isTrue(r.m_val))]))

\* the end of visit(const Logical&): m_val = isTrue(evaluate(right))
LogicalRight(e, l) ==
    Then(Eval(e.right, [l EXCEPT !.rhs = @ + 1]), LAMBDA r :
        IF r.sig # "ok" THEN r
        ELSE IF isTrue(r.m_val) THEN [r EXCEPT !.m_val = Bool(TRUE)]
        ELSE [r EXCEPT !.m_val = Bool(FALSE)])

\* visit(const Logical&)
visitLogical(e, s) ==
    Then(Eval(e.left, s), LAMBDA l :
        IF l.sig # "ok" THEN l
        ELSE IF e.op = "OR"
             THEN IF isTrue(l.m_val) THEN [l EXCEPT !.m_val = Bool(TRUE)]
                  ELSE LogicalRight(e, l)
             ELSE IF ~isTrue(l.m_val) THEN [l EXCEPT !.m_val = Bool(FALSE)]
                  ELSE LogicalRight(e, l))

\* what visit(const Assign&) did, for the record of the run
Assigned(e, v, t) ==
    [t EXCEPT !.assigns = Append(@,
        [name |-> e.name, op |-> e.op, depth |-> e.depth, val |-> v.m_val,
         at |-> v.m_env, before |-> v.envs, after |-> t.envs, threw |-> t.sig = "error"])]

\* visit(const Assign&), writing to the current scope whatever the resolver said
visitAssignCurrent(e, s) ==
    Then(Eval(e.val, s), LAMBDA v :
        IF v.sig # "ok" THEN v
        ELSE IF e.op = "EQUAL" THEN Assigned(e, v, assign(v, v.m_env, e.name, v.m_val))
        ELSE IF e.op = "BT_EQUAL"
             THEN Assigned(e, v, strictAssign(v, v.m_env, e.name, v.m_val))
        ELSE Assigned(e, v, v))

\* visit(const Assign&)
visitAssign(e, s) ==
    Then(Eval(e.val, s), LAMBDA v :
        LET isStrictAssign == e.op = "BT_EQUAL"
            isLazyAssign == e.op = "EQUAL"
            tryGlobal == e.depth = NoDepth
        IN  IF v.sig # "ok" THEN v
            ELSE IF ~tryGlobal
                 THEN IF isLazyAssign
                      THEN Assigned(e, v, assignAt(v, v.m_env, e.name, v.m_val, e.depth))
                      ELSE IF isStrictAssign
                           THEN Assigned(e, v,
                                    strictAssignAt(v, v.m_env, e.name, v.m_val, e.depth))
                      ELSE Assigned(e, v, v)
                 ELSE IF isLazyAssign
                      THEN Assigned(e, v, assign(v, m_global, e.name, v.m_val))
                      ELSE IF isStrictAssign
                           THEN Assigned(e, v, strictAssign(v, m_global, e.name, v.m_val))
                      ELSE Assigned(e, v, v))

(***************************************************************************)
(* A string is the number its characters spell in base StrBase (each      *)
(* character a digit 1..StrBase-1), so that concatenation can be computed. *)
(***************************************************************************)
StrBase == 3

RECURSIVE StrShift(_)
StrShift(str) == IF str = 0 THEN 1 ELSE StrBase * StrShift(str \div StrBase)

Concat(a, b) == a * StrShift(b) + b

\* the switch of visit(const Binary&) on the operator, for the operators whose
\* result is exact in ticks; r is the state after both operands
BinaryOp(op, left, right, r) ==
    LET numOperands == isNum(left) /\ isNum(right)
        strOperands == isStr(left) /\ isStr(right)
    IN  CASE op = "PLUS" ->
               IF numOperands THEN [r EXCEPT !.m_val = Num(left.v + right.v)]
               ELSE IF strOperands THEN [r EXCEPT !.m_val = Str(Concat(left.v, right.v))]
               ELSE Throw(r)
          [] op = "MINUS" ->
               IF ~numOperands THEN Throw(r)
               ELSE [r EXCEPT !.m_val = Num(left.v - right.v)]
          [] op = "GT_EQUAL" ->
               IF ~numOperands THEN Throw(r)
               ELSE [r EXCEPT !.m_val = Bool(isEqualNum(left.v, right.v) \/ left.v > right.v)]
          [] op = "LT_EQUAL" ->
               IF ~numOperands THEN Throw(r)
               ELSE [r EXCEPT !.m_val = Bool(isEqualNum(left.v, right.v) \/ left.v < right.v)]
          [] op = "LESS" ->
               IF ~numOperands THEN Throw(r)
               ELSE [r EXCEPT !.m_val = Bool(~isEqualNum(left.v, right.v) /\ left.v < right.v)]
          [] op = "GREATER" ->
               IF ~numOperands THEN Throw(r)
               ELSE [r EXCEPT !.m_val = Bool(~isEqualNum(left.v, right.v) /\ left.v > right.v)]
          [] OTHER -> [r EXCEPT !.m_val = Nix]

\* visit(const Binary&)
visitBinary(e, s) ==
    Then(Eval(e.left, s), LAMBDA l :
        IF l.sig # "ok" THEN l
        ELSE Then(Eval(e.right, l), LAMBDA r :
            IF r.sig # "ok" THEN r ELSE BinaryOp(e.op, l.m_val, r.m_val, r)))

(***************************************************************************)
(* list_t: m_type is the alternative of the elements ("empty" is           *)
(* list_t::Type::emptyList, 999), m_list the elements.                     *)
(***************************************************************************)
NewList(s, values, type) ==
    [s EXCEPT !.heap = Append(@, [m_type |-> type, m_list |-> values]),
              !.m_val = ListRef(Len(s.heap) + 1)]

\* the loop of visit(const ListExpr&) from element i on
RECURSIVE ListElems(_, _, _, _, _)
ListElems(exprs, i, values, type, s) ==
    IF i > Len(exprs) THEN NewList(s, values, type)
    ELSE Then(Eval(exprs[i], s), LAMBDA v :
             IF v.sig # "ok" THEN v
             ELSE IF i > 1 /\ type # v.m_val.t THEN Throw(v)
             ELSE ListElems(exprs, i + 1, Append(values, v.m_val), v.m_val.t, v))

\* visit(const ListExpr&)
visitListExpr(e, s) == ListElems(e.exprs, 1, <<>>, "empty", s)

\* the checks verifyIndices makes on one index d of a list of `size` elements
BadIndex(d, size) == ~isIntegral(d) \/ lround(d) <= 0 \/ lround(d) > size

\* Interpreter::verifyIndices.  list is the heap index of the indexed list.
\* std::get<long double> of an element that holds no number throws
\* std::bad_variant_access, which nothing catches: "crash".
verifyIndices(list, index, s) ==
    IF isList(index)
    THEN LET listIndex == s.heap[index.v]
             size == Len(s.heap[list].m_list)
             \* the first element the loop stops at, 0 when it passes them all
             stop == IF \E k \in 1..Len(listIndex.m_list) :
                            ~isNum(listIndex.m_list[k]) \/ BadIndex(listIndex.m_list[k].v, size)
                     THEN CHOOSE k \in 1..Len(listIndex.m_list) :
                            /\ ~isNum(listIndex.m_list[k]) \/ BadIndex(listIndex.m_list[k].v, size)
                            /\ \A j \in 1..(k - 1) :
                                 isNum(listIndex.m_list[j]) /\ ~BadIndex(listIndex.m_list[j].v, size)
                     ELSE 0
         IN  IF listIndex.m_type = "empty" THEN s
             ELSE IF listIndex.m_type # "num" THEN Throw(s)
             ELSE IF stop = 0 THEN s
             ELSE IF ~isNum(listIndex.m_list[stop]) THEN [s EXCEPT !.sig = "crash"]
             ELSE Throw(s)
    ELSE IF ~isNum(index) THEN Throw(s)
    ELSE IF BadIndex(index.v, Len(s.heap[list].m_list)) THEN Throw(s)
    ELSE s

\* list->m_list[in] for every index: the gather with 0-based element access,
\* which reads past the last element for the index size
GatherZeroBased(list, listIndex) ==
    [k \in 1..Len(listIndex.m_list) |->
        IF lround(listIndex.m_list[k].v) + 1 <= Len(list.m_list)
        THEN list.m_list[lround(listIndex.m_list[k].v) + 1]
        ELSE Nix]

\* the gather of visit(const Index&): list->m_list[in-1] for every index
Gather(list, listIndex) ==
    [k \in 1..Len(listIndex.m_list) |-> list.m_list[lround(listIndex.m_list[k].v)]]

\* the end of visit(const Index&), after verifyIndices let the index pass
Indexed(list, index, c) ==
    IF isList(index)
    THEN NewList(c, Gather(c.heap[list], c.heap[index.v]), c.heap[list].m_type)
    ELSE [c EXCEPT !.m_val = c.heap[list].m_list[lround(index.v)]]

\* visit(const Index&)
visitIndex(e, s) ==
    Then(Eval(e.list, s), LAMBDA l :
        IF l.sig # "ok" THEN l
        ELSE IF ~isList(l.m_val) THEN Throw(l)
        ELSE Then(Eval(e.index, l), LAMBDA i :
            IF i.sig # "ok" THEN i
            ELSE Then(verifyIndices(l.m_val.v, i.m_val, i), LAMBDA c :
                IF c.sig # "ok" THEN c
                ELSE Indexed(l.m_val.v, i.m_val, c))))

\* the loop of visit(const RangeExpr&): for (i = first; i <= end; i += step);
\* a loop that has pushed MaxRange values is not followed further
MaxRange == 6

RECURSIVE RangeLoopExclusive(_, _, _, _, _)
RangeLoopExclusive(i, end, step, rangeList, s) ==
    IF ~(i < end) THEN NewList(s, rangeList, "num")
    ELSE IF Len(rangeList) >= MaxRange THEN [s EXCEPT !.sig = "fuel"]
    ELSE RangeLoopExclusive(i + step, end, step, Append(rangeList, Num(i)), s)

RECURSIVE RangeLoop(_, _, _, _, _)
RangeLoop(i, end, step, rangeList, s) ==
    IF ~(i <= end) THEN NewList(s, rangeList, "num")
    ELSE IF Len(rangeList) >= MaxRange THEN [s EXCEPT !.sig = "fuel"]
    ELSE RangeLoop(i + step, end, step, Append(rangeList, Num(i)), s)

\* visit(const RangeExpr&)
visitRangeExpr(e, s) ==
    LET hasStep == e.step.k # "none"
    IN  Then(Eval(e.first, s), LAMBDA f :
            IF f.sig # "ok" THEN f
            ELSE IF ~isNum(f.m_val) THEN Throw(f)
            ELSE Then(IF hasStep THEN Eval(e.step, f) ELSE f, LAMBDA st :
                IF st.sig # "ok" THEN st
                ELSE IF hasStep /\ ~isNum(st.m_val) THEN Throw(st)
                ELSE IF hasStep /\ isEqualNum(st.m_val.v, 0) THEN Throw(st)
                ELSE Then(Eval(e.end, st), LAMBDA en :
                    IF en.sig # "ok" THEN en
                    ELSE IF ~isNum(en.m_val) THEN Throw(en)
                    ELSE RangeLoop(f.m_val.v, en.m_val.v,
                                   IF hasStep THEN st.m_val.v ELSE Unit, <<>>, en))))

\* the scatter loop of visit(const IndexAssign&), from position i on; the three
\* lists are read from the heap at every step, as they may be one object
RECURSIVE ScatterLoop(_, _, _, _, _)
ScatterLoop(list, indexList, valueList, i, s) ==
    IF i > Len(s.heap[indexList].m_list) THEN s
    ELSE IF ~isNum(s.heap[indexList].m_list[i]) THEN [s EXCEPT !.sig = "crash"]
    ELSE LET index == lround(s.heap[indexList].m_list[i].v)
         IN  IF index < 1 \/ index > Len(s.heap[list].m_list)
                \/ i > Len(s.heap[valueList].m_list)
             THEN [s EXCEPT !.sig = "crash"]   \* vector::at throws std::out_of_range
             ELSE ScatterLoop(list, indexList, valueList, i + 1,
                      [s EXCEPT !.heap[list].m_list[index] = s.heap[valueList].m_list[i]])

\* what `value.index() != list->m_list[1].index()` yields: m_list[1] is the
\* second element; for a list of one element it lies outside the vector and
\* the outcome is the run's s.ub
ScalarMismatch(value, list, s) ==
    IF Len(s.heap[list].m_list) >= 2 THEN value.t # s.heap[list].m_list[2].t
    ELSE s.ub

\* the end of visit(const IndexAssign&), after the value was evaluated
IndexAssigned(list, index, value, v) ==
    IF isList(index)
    THEN IF ~isList(value) THEN Throw(v)
         ELSE IF Len(v.heap[index.v].m_list) # Len(v.heap[value.v].m_list) THEN Throw(v)
         ELSE IF v.heap[index.v].m_type # v.heap[value.v].m_type THEN Throw(v)
         ELSE ScatterLoop(list, index.v, value.v, 1, v)
    ELSE IF ScalarMismatch(value, list, v) THEN Throw(v)
         ELSE [v EXCEPT !.heap[list].m_list[lround(index.v)] = value]

\* visit(const IndexAssign&)
visitIndexAssign(e, s) ==
    Then(Eval(e.list, s), LAMBDA l :
        IF l.sig # "ok" THEN l
        ELSE IF ~isList(l.m_val) THEN Throw(l)
        ELSE Then(Eval(e.index, l), LAMBDA i :
            IF i.sig # "ok" THEN i
            ELSE Then(verifyIndices(l.m_val.v, i.m_val, i), LAMBDA c :
                IF c.sig # "ok" THEN c
                ELSE Then(Eval(e.val, c), LAMBDA v :
                    IF v.sig # "ok" THEN v
                    ELSE IndexAssigned(l.m_val.v, i.m_val, v.m_val, v)))))

\* visit(const InExpr&)
visitInExpr(e, s) ==
    Then(Eval(e.iterable, s), LAMBDA i :
        IF i.sig # "ok" THEN i
        ELSE IF ~isList(i.m_val) THEN Throw(i)
        ELSE i)

(***************************************************************************)
(* Statements.                                                             *)
(***************************************************************************)

\* m_env = parent: the scopes above parent have no owner left
Restore(s, parent) == [s EXCEPT !.m_env = parent, !.envs = SubSeq(@, 1, parent)]

\* std::make_shared<Environment>(m_env): a new scope whose parent is m_env
NewEnv(s) == [s EXCEPT !.envs = Append(@, EmptySlots)]

\* Proto::runtimeError: the error goes to the diagnostic sink and the
\* session's flag is set
runtimeError(s, who) ==
    IF who = "block" THEN [s EXCEPT !.hit = TRUE, !.blockReports = @ + 1]
    ELSE [s EXCEPT !.hit = TRUE, !.topReports = @ + 1]

\* the statements of a block, from the i-th on
RECURSIVE ExecStmts(_, _, _)
ExecStmts(stmts, i, s) ==
    IF i > Len(stmts) THEN s
    ELSE Then(Exec(stmts[i], s), LAMBDA r :
             IF r.sig # "ok" THEN r ELSE ExecStmts(stmts, i + 1, r))

\* what a frame that owns a scope notes when a RuntimeError reaches it
Unwound(s, frame, parent) ==
    [s EXCEPT !.unwinds = Append(@, [frame |-> frame, before |-> parent, now |-> s.m_env])]

\* Interpreter::executeBlock.  env is an index: the scope to run stmts in.
executeBlock(stmts, env, s) ==
    Then(ExecStmts(stmts, 1, [s EXCEPT !.m_env = env]), LAMBDA r :
        IF r.sig = "ok" THEN Restore(r, s.m_env)
        ELSE IF r.sig = "error"
             THEN [Unwound(runtimeError(Restore(r, s.m_env), "block"), "block", s.m_env)
                       EXCEPT !.sig = "ok"]
        ELSE r)

\* visit(const Block&)
visitBlock(b, s) == executeBlock(b.stmts, Len(s.envs) + 1, NewEnv(s))

\* visit(const If&)
visitIf(ifStmt, s) ==
    Then(Eval(ifStmt.cond, s), LAMBDA c :
        IF c.sig # "ok" THEN c
        ELSE IF isTrue(c.m_val) THEN Exec(ifStmt.thenBranch, c)
        ELSE IF ifStmt.elseBranch.k # "none" THEN Exec(ifStmt.elseBranch, c)
        ELSE c)

\* what a loop notes when it catches the break or continue of a body
\* iteration that began with m_env = began
Caught(s, loop, began) ==
    [s EXCEPT !.sig = "ok",
              !.catches = Append(@, [loop |-> loop, what |-> s.sig,
                                     began |-> began, now |-> s.m_env])]

\* catch (const ContinueThrow&) {} around the body of a loop: b is the state
\* the body left, began the m_env its iteration began with
CatchContinue(b, loop, began) == IF b.sig = "continue" THEN Caught(b, loop, began) ELSE b

\* catch (const BreakThrow&) {} around a loop: began is set where the break
\* left the body
CatchBreak(r, loop) == IF r.sig = "break" THEN Caught(r, loop, r.began) ELSE r

\* the loop of visit(const While&); s.m_val holds the condition's value and
\* n is the number of iterations followed so far
RECURSIVE WhileLoop(_, _, _)
WhileLoop(w, s, n) ==
    IF ~isTrue(s.m_val) THEN s
    ELSE IF n >= MaxIter THEN [s EXCEPT !.sig = "fuel"]
    ELSE Then(Exec(w.body, s), LAMBDA b :
             IF b.sig = "break" THEN [b EXCEPT !.began = s.m_env]
             ELSE Then(CatchContinue(b, "While", s.m_env), LAMBDA c :
                 IF c.sig # "ok" THEN c
                 ELSE Then(Eval(w.cond, c), LAMBDA d :
                     IF d.sig # "ok" THEN d ELSE WhileLoop(w, d, n + 1))))

\* visit(const While&)
visitWhile(w, s) ==
    Then(Eval(w.cond, s), LAMBDA c :
        IF c.sig # "ok" THEN c ELSE CatchBreak(WhileLoop(w, c, 0), "While"))

\* the body of a for loop: a Block runs in the loop's own scope
ForBody(body, s) ==
    IF body.k = "Block" THEN executeBlock(body.stmts, s.m_env, s)
    ELSE Exec(body, s)

\* the loop of visit(const For&)
RECURSIVE ForLoop(_, _, _)
ForLoop(f, s, n) ==
    IF ~isTrue(s.m_val) THEN s
    ELSE IF n >= MaxIter THEN [s EXCEPT !.sig = "fuel"]
    ELSE Then(ForBody(f.body, s), LAMBDA b :
             IF b.sig = "break" THEN [b EXCEPT !.began = s.m_env]
             ELSE Then(CatchContinue(b, "For", s.m_env), LAMBDA c :
                 IF c.sig # "ok" THEN c
                 ELSE Then(IF f.incr.k = "none" THEN c ELSE Eval(f.incr, c), LAMBDA i :
                     IF i.sig # "ok" THEN i
                     ELSE Then(Eval(f.cond, i), LAMBDA d :
                         IF d.sig # "ok" THEN d ELSE ForLoop(f, d, n + 1)))))

\* the end of visit(const For&) and visit(const RangedFor&): m_env = parent,
\* which a RuntimeError passing through skips
LeaveLoop(r, loop, parent) ==
    IF r.sig = "break" THEN Restore(CatchBreak(r, loop), parent)
    ELSE IF r.sig = "ok" THEN Restore(r, parent)
    ELSE IF r.sig = "error" THEN Unwound(r, loop, parent)
    ELSE r

\* visit(const For&)
visitFor(f, s) ==
    Then(IF f.init.k = "none" THEN [NewEnv(s) EXCEPT !.m_env = Len(s.envs) + 1]
         ELSE Eval(f.init, [NewEnv(s) EXCEPT !.m_env = Len(s.envs) + 1]), LAMBDA i :
        IF i.sig # "ok" THEN LeaveLoop(i, "For", s.m_env)
        ELSE Then(Eval(f.cond, i), LAMBDA c :
            IF c.sig # "ok" THEN LeaveLoop(c, "For", s.m_env)
            ELSE LeaveLoop(ForLoop(f, c, 0), "For", s.m_env)))

\* the loop of visit(const RangedFor&) from element i (0-based) on
RECURSIVE RangedForLoop(_, _, _, _)
RangedForLoop(rf, iterable, i, s) ==
    IF ~(i < Len(s.heap[iterable].m_list)) THEN s
    ELSE Then(assignAt(s, s.m_env, rf.inexpr.name, s.heap[iterable].m_list[i + 1],
                       rf.inexpr.depth), LAMBDA a :
             Then(ForBody(rf.body, a), LAMBDA b :
                 IF b.sig = "break" THEN [b EXCEPT !.began = a.m_env]
                 ELSE Then(CatchContinue(b, "RangedFor", a.m_env), LAMBDA c :
                     IF c.sig # "ok" THEN c
                     ELSE RangedForLoop(rf, iterable, i + 1, c))))

\* visit(const RangedFor&); m_locals.at throws std::out_of_range for an
\* in-expression the resolver did not record
visitRangedFor(rf, s) ==
    Then(Eval(rf.inexpr, [NewEnv(s) EXCEPT !.m_env = Len(s.envs) + 1]), LAMBDA i :
        IF i.sig # "ok" THEN LeaveLoop(i, "RangedFor", s.m_env)
        ELSE IF rf.inexpr.depth = NoDepth THEN [i EXCEPT !.sig = "crash"]
        ELSE LeaveLoop(RangedForLoop(rf, i.m_val.v, 0, i), "RangedFor", s.m_env))

(***************************************************************************)
(* Calls.  The functions the evaluator of the model meets are the lambdas  *)
(* `fn (p1, .., pn) { y = "b"; }`: their body is FnBody, and the value of  *)
(* such a lambda is known by its arity.                                    *)
(***************************************************************************)
ParamNames == <<"x", "y">>

FnBody == <<Expression(Assign("y", "EQUAL", NoDepth, Literal(Str(2))))>>

\* visit(const Lambda&)
visitLambda(e, s) == [s EXCEPT !.m_val = Callable(Len(e.params))]

\* ProtoFunction::call (includes/ProtoFunc.hpp): a fresh environment, the
\* parameters bound to the arguments, the body executed in it; without a
\* return statement the call yields nix
call(fn, args, s) ==
    Then(executeBlock(FnBody, Len(s.envs) + 1,
             [s EXCEPT !.envs = Append(@,
                 [n \in Names |->
                     IF \E i \in 1..fn.v : ParamNames[i] = n
                     THEN args[CHOOSE i \in 1..fn.v : ParamNames[i] = n]
                     ELSE Unbound])]), LAMBDA r :
        IF r.sig # "ok" THEN r ELSE [r EXCEPT !.m_val = Nix])

\* the end of visit(const Call&): the two checks, then the call
Called(callee, args, s) ==
    IF ~isCallable(callee) THEN Throw(s)
    ELSE IF callee.v # Len(args) THEN Throw(s)
    ELSE call(callee, args, s)

\* the loop of visit(const Call&) over the arguments, from the i-th on
RECURSIVE CallArgs(_, _, _, _, _)
CallArgs(exprs, i, callee, args, s) ==
    IF i > Len(exprs) THEN Called(callee, args, s)
    ELSE Then(Eval(exprs[i], s), LAMBDA a :
             IF a.sig # "ok" THEN a
             ELSE CallArgs(exprs, i + 1, callee, Append(args, a.m_val), a))

\* visit(const Call&) with the callee checked before the arguments are evaluated
visitCallCheckFirst(e, s) ==
    Then(Eval(e.callee, s), LAMBDA c :
        IF c.sig # "ok" THEN c
        ELSE IF ~isCallable(c.m_val) THEN Throw(c)
        ELSE CallArgs(e.args, 1, c.m_val, <<>>, c))

\* visit(const Call&)
visitCall(e, s) ==
    Then(Eval(e.callee, s), LAMBDA c :
        IF c.sig # "ok" THEN c
        ELSE CallArgs(e.args, 1, c.m_val, <<>>, c))

\* Expr::accept and Stmt::accept.  Once a RuntimeError was thrown in the run,
\* any further evaluation or execution is noted in `after`.
accept(node, s0) ==
    Then(IF s0.raised THEN [s0 EXCEPT !.after = TRUE] ELSE s0, LAMBDA s :
        CASE node.k = "Literal" -> [s EXCEPT !.m_val = node.val]
          [] node.k = "ParenGroup" -> Eval(node.enclosedExpr, s)
          [] node.k = "Variable" -> visitVariable(node, s)
          [] node.k = "Assign" -> visitAssign(node, s)
          [] node.k = "Binary" -> visitBinary(node, s)
          [] node.k = "Logical" -> visitLogical(node, s)
          [] node.k = "ListExpr" -> visitListExpr(node, s)
          [] node.k = "Index" -> visitIndex(node, s)
          [] node.k = "RangeExpr" -> visitRangeExpr(node, s)
          [] node.k = "IndexAssign" -> visitIndexAssign(node, s)
          [] node.k = "InExpr" -> visitInExpr(node, s)
          [] node.k = "Call" -> visitCall(node, s)
          [] node.k = "Lambda" -> visitLambda(node, s)
          [] node.k = "Expression" -> Eval(node.expr, s)
          [] node.k = "Block" -> visitBlock(node, s)
          [] node.k = "If" -> visitIf(node, s)
          [] node.k = "While" -> visitWhile(node, s)
          [] node.k = "For" -> visitFor(node, s)
          [] node.k = "RangedFor" -> visitRangedFor(node, s)
          [] node.k = "Break" -> [s EXCEPT !.sig = "break"]
          [] node.k = "Continue" -> [s EXCEPT !.sig = "continue"])

\* Interpreter::interpret(const Stmts&)
interpret(stmts, s) ==
    Then(ExecStmts(stmts, 1, s), LAMBDA r :
        IF r.sig = "error" THEN [runtimeError(r, "interpret") EXCEPT !.sig = "caught"]
        ELSE r)

\* Interpreter::interpret(Expr_ptr): the REPL's single expression
interpretExpr(expr, s) ==
    Then(Eval(expr, s), LAMBDA r :
        IF r.sig = "error" THEN [runtimeError(r, "interpret") EXCEPT !.sig = "caught"]
        ELSE r)

(***************************************************************************)
(* list_ptr is a std::shared_ptr: a list that no scope, no list and not    *)
(* m_val points to any more is destroyed.  The lists left keep their order *)
(* and are numbered anew.                                                  *)
(***************************************************************************)
Roots(s) ==
    {s.envs[i][n].v : <<i, n>> \in {p \in (1..Len(s.envs)) \X Names : isList(s.envs[p[1]][p[2]])}}
      \cup (IF isList(s.m_val) THEN {s.m_val.v} ELSE {})

RECURSIVE Reach(_, _)
Reach(h, set) ==
    LET more == set \cup
                {h[p[1]].m_list[p[2]].v :
                    p \in {q \in set \X (1..MaxRange) :
                              q[2] <= Len(h[q[1]].m_list) /\ isList(h[q[1]].m_list[q[2]])}}
    IN  IF more = set THEN set ELSE Reach(h, more)

Rank(live, r) == Cardinality({l \in live : l <= r})

Renamed(live, val) == IF isList(val) THEN ListRef(Rank(live, val.v)) ELSE val

Release(s) ==
    LET live == Reach(s.heap, Roots(s))
        old(k) == CHOOSE l \in live : Rank(live, l) = k
    IN  [s EXCEPT
           !.heap = [k \in 1..Cardinality(live) |->
                       [m_type |-> s.heap[old(k)].m_type,
                        m_list |-> [j \in 1..Len(s.heap[old(k)].m_list) |->
                                       Renamed(live, s.heap[old(k)].m_list[j])]]],
           !.envs = [i \in 1..Len(s.envs) |->
                       [n \in Names |-> Renamed(live, s.envs[i][n])]],
           !.m_val = Renamed(live, s.m_val)]

(***************************************************************************)
(* The session (Proto::run on one Interpreter): every step reads one entry *)
(* and interprets it.  `run` keeps the entry and what the evaluator noted. *)
(***************************************************************************)
Init ==
    /\ envs = <<EmptySlots>>
    /\ m_env = m_global
    /\ heap = <<>>
    /\ m_val = Nix
    /\ hadRuntimeError = FALSE
    /\ lexer = NoLexer
    /\ parser = NoParser
    /\ rangeEval = NoRange
    /\ run = [entry |-> [fam |-> "none"], outcome |-> "ok",
              raised |-> FALSE, after |-> FALSE, blockReports |-> 0, topReports |-> 0,
              catches |-> <<>>, unwinds |-> <<>>, assigns |-> <<>>, rhs |-> 0,
              m_envBefore |-> m_global, result |-> Nix, snap |-> 0]

\* a process that crashed or hangs takes no further entry
Alive == run.outcome \notin {"crash", "fuel"}

\* the families of entries whose Assign records are kept in `run`
KeepsAssigns == {"assign", "call", "for", "rangedFor"}

\* the state after a run that ended in evaluator state r; snap is what the
\* entry's family keeps of the state before and of the lists before release
Finish(entry, r, snap) ==
    LET f == Release(r)
    IN  /\ Len(f.heap) <= MaxLists
        /\ Len(r.envs) <= MaxEnvs
        /\ envs' = f.envs
        /\ m_env' = r.m_env
        /\ heap' = f.heap
        /\ m_val' = f.m_val
        /\ hadRuntimeError' = r.hit
        /\ lexer' = lexer
        /\ parser' = parser
        /\ rangeEval' = rangeEval
        /\ run' = [entry |-> entry, outcome |-> r.sig,
                   raised |-> r.raised, after |-> r.after,
                   blockReports |-> r.blockReports, topReports |-> r.topReports,
                   catches |-> r.catches, unwinds |-> r.unwinds,
                   assigns |-> IF entry.fam \in KeepsAssigns THEN r.assigns ELSE <<>>,
                   rhs |-> r.rhs,
                   m_envBefore |-> m_env, result |-> r.m_val, snap |-> snap]

(***************************************************************************)
(* Entries `l op (x = r)`: a Logical node whose right operand has a side   *)
(* effect.                                                                 *)
(***************************************************************************)
OperandValues ==
    {Nix, Bool(TRUE), Bool(FALSE), Num(0), Num(1), Num(-1), Num(epsilon), Num(Unit), Str(1)}

OperandExprs == {Literal(v) : v \in OperandValues} \cup {ListExpr(<<>>)}

RunLogical ==
    \E op \in {"OR", "AND"}, l \in OperandExprs, r \in OperandValues :
        /\ Alive
        /\ LET res == interpretExpr(
                          Logical(l, op, Assign("x", "EQUAL", NoDepth, Literal(r))),
                          Start(FALSE))
           IN  Finish([fam |-> "logical", op |-> op, left |-> l, right |-> r],
                      res, envs[m_global]["x"])

NextLogical == RunLogical

SpecLogical == Init /\ [][NextLogical]_vars

(***************************************************************************)
(* Entries that assign inside k nested blocks: the scopes named in binds   *)
(* (0 is the root) first bind x in themselves, then the innermost block    *)
(* runs the Assign node `a`.                                               *)
(***************************************************************************)
BindHere == Expression(Assign("x", "EQUAL", 0, Literal(Num(0))))

RECURSIVE Nested(_, _, _, _)
Nested(j, k, binds, a) ==
    (IF j \in binds THEN <<BindHere>> ELSE <<>>)
      \o (IF j = k THEN <<Expression(a)>> ELSE <<Block(Nested(j + 1, k, binds, a))>>)

AssignEntries ==
    {e \in [fam : {"assign"}, k : 0..MaxNest, binds : SUBSET (0..MaxNest), name : Names,
            op : {"EQUAL", "BT_EQUAL"}, depth : {NoDepth} \cup (0..MaxNest)] :
        e.binds \subseteq 0..e.k /\ e.depth <= e.k}

\* an entry read and not yet interpreted
PendingRun(entry) ==
    [entry |-> entry, outcome |-> "pending",
     raised |-> FALSE, after |-> FALSE, blockReports |-> 0, topReports |-> 0,
     catches |-> <<>>, unwinds |-> <<>>, assigns |-> <<>>, rhs |-> 0,
     m_envBefore |-> m_global, result |-> Nix, snap |-> 0]

Pending(fam) == run.outcome = "pending" /\ run.entry.fam = fam

\* the session has bound some of the names in the root scope, and reads an entry
InitAssign ==
    /\ envs \in {<<g>> : g \in [Names -> {Unbound, Num(0)}]}
    /\ m_env = m_global
    /\ heap = <<>>
    /\ m_val = Nix
    /\ hadRuntimeError = FALSE
    /\ lexer = NoLexer
    /\ parser = NoParser
    /\ rangeEval = NoRange
    /\ run \in {PendingRun(entry) : entry \in AssignEntries}

RunAssign ==
    /\ Pending("assign")
    /\ LET e == run.entry
       IN  Finish(e,
                  interpret(Nested(0, e.k, e.binds, Assign(e.name, e.op, e.depth, Literal(Str(1)))),
                            Start(FALSE)),
                  0)

NextAssign == RunAssign

SpecAssign == InitAssign /\ [][NextAssign]_vars

(***************************************************************************)
(* Entries with control flow: `x = 0; LOOP y = 1;` where the loop's body   *)
(* is a leaf statement inside the wrappers w (outermost first), and the    *)
(* loop stands at the top level or in a block.                             *)
(***************************************************************************)
ErrExpr == Binary(Literal(Num(Unit)), "PLUS", Literal(Str(1)))
Mark == Expression(Assign("y", "EQUAL", NoDepth, Literal(Num(Unit))))
True == Literal(Bool(TRUE))
X == Variable("x", NoDepth)
SetX(e) == Assign("x", "EQUAL", NoDepth, e)
XPlusOne == Binary(X, "PLUS", Literal(Num(Unit)))

LeafStmt(leaf) ==
    CASE leaf = "break" -> Break
      [] leaf = "continue" -> Continue
      [] leaf = "error" -> Expression(ErrExpr)
      [] leaf = "mark" -> Mark

WrapKinds == {"block", "if"}

RECURSIVE Wrapped(_, _)
Wrapped(w, stmt) ==
    IF w = <<>> THEN stmt
    ELSE IF Head(w) = "block" THEN Block(<<Wrapped(Tail(w), stmt), Mark>>)
    ELSE If(True, Wrapped(Tail(w), stmt), NoStmt)

Wrappers == UNION {[1..n -> WrapKinds] : n \in 0..MaxNest}

\* the loop statement; errAt puts the failing expression in the loop's head
Loop(loop, errAt, body) ==
    CASE loop = "While" ->
           While(IF errAt = "cond" THEN ErrExpr
                 ELSE Binary(ParenGroup(SetX(XPlusOne)), "LESS", Literal(Num(3 * Unit))),
                 body)
      [] loop = "For" ->
           For(IF errAt = "init" THEN ErrExpr ELSE SetX(Literal(Num(0))),
               IF errAt = "cond" THEN ErrExpr ELSE Binary(X, "LESS", Literal(Num(2 * Unit))),
               IF errAt = "incr" THEN ErrExpr ELSE SetX(XPlusOne),
               body)
      [] loop = "RangedFor" ->
           RangedFor(InExpr("y", 0, IF errAt = "iter" THEN Literal(Num(Unit))
                                    ELSE ListExpr(<<Literal(Num(Unit)), Literal(Num(2 * Unit))>>)),
                     body)

ErrPlaces(loop) ==
    CASE loop = "While" -> {"none", "cond"}
      [] loop = "For" -> {"none", "init", "cond", "incr"}
      [] loop = "RangedFor" -> {"none", "iter"}

CtlProgram(loop, errAt, w, leaf, outer) ==
    LET l == Loop(loop, errAt, Wrapped(w, LeafStmt(leaf)))
    IN  <<Expression(SetX(Literal(Num(0)))),
          IF outer = "block" THEN Block(<<l, Mark>>) ELSE l,
          Mark>>

\* a loop whose body holds a break or a continue
RunLoop ==
    \E loop \in {"While", "For", "RangedFor"}, w \in Wrappers,
       leaf \in {"break", "continue"}, outer \in {"top", "block"} :
        /\ Alive
        /\ LET res == interpret(CtlProgram(loop, "none", w, leaf, outer), Start(FALSE))
           IN  Finish([fam |-> "loop", loop |-> loop, errAt |-> "none", w |-> w,
                       leaf |-> leaf, outer |-> outer],
                      res, 0)

\* a loop with a failing expression in its head
RunFailingHead ==
    \E loop \in {"While", "For", "RangedFor"}, outer \in {"top", "block"} :
      \E errAt \in ErrPlaces(loop) \ {"none"} :
        /\ Alive
        /\ LET res == interpret(CtlProgram(loop, errAt, <<>>, "mark", outer), Start(FALSE))
           IN  Finish([fam |-> "head", loop |-> loop, errAt |-> errAt, w |-> <<>>,
                       leaf |-> "mark", outer |-> outer],
                      res, 0)

\* a loop with a failing expression in its body
RunFailingBody ==
    \E loop \in {"While", "For", "RangedFor"}, w \in Wrappers :
        /\ Alive
        /\ LET res == interpret(CtlProgram(loop, "none", w, "error", "top"), Start(FALSE))
           IN  Finish([fam |-> "body", loop |-> loop, errAt |-> "none", w |-> w,
                       leaf |-> "error", outer |-> "top"],
                      res, 0)

\* a failing statement outside any loop: `WRAPPED(1 + "a"); y = 1;`
RunFailingStmt ==
    \E w \in Wrappers :
        /\ Alive
        /\ LET res == interpret(<<Wrapped(w, Expression(ErrExpr)), Mark>>, Start(FALSE))
           IN  Finish([fam |-> "stmt", loop |-> "none", errAt |-> "none", w |-> w,
                       leaf |-> "error", outer |-> "top"],
                      res, 0)

NextCtl == RunLoop \/ RunFailingHead \/ RunFailingBody \/ RunFailingStmt

SpecCtl == Init /\ [][NextCtl]_vars

(***************************************************************************)
(* Entries on lists.  Here the session starts with the entry it is to run  *)
(* (run.outcome = "pending"), drawn by InitList from the programs          *)
(*     x = T; x[I];        x = T; x[I] = R;        x = a..s..b;   x = [..]; *)
(* and run.snap keeps the lists as they were after `x = T` and as the run  *)
(* left them, before any was released.                                     *)
(***************************************************************************)
EmptyNumList == RangeExpr(Literal(Num(Unit)), NoExpr, Literal(Num(0)))

\* An entry names its expressions by what they are made of: a literal, a list
\* literal of literals, the empty range 1..0, or no expression.
Lit(val) == [kind |-> "lit", vals |-> <<val>>]
ListOf(vals) == [kind |-> "list", vals |-> vals]
Range0 == [kind |-> "range0", vals |-> <<>>]
None == [kind |-> "none", vals |-> <<>>]

ToExpr(c) ==
    CASE c.kind = "lit" -> Literal(c.vals[1])
      [] c.kind = "list" -> ListExpr([k \in 1..Len(c.vals) |-> Literal(c.vals[k])])
      [] c.kind = "range0" -> EmptyNumList
      [] OTHER -> NoExpr

NumList(from, n) == ListOf([k \in 1..n |-> Num((from + k) * Unit)])
StrList(from, n) == ListOf([k \in 1..n |-> Str(from + k)])

Targets ==
    {NumList(0, n) : n \in 0..MaxLen} \cup {StrList(0, n) : n \in 1..MaxLen} \cup {Range0}

\* index lists: every sequence of at most MaxIdx integers of 0..MaxLen+1, an
\* index next to an integer, one that is no integer, a string, and the two
\* empty lists
MaxIdx == 2

IndexLists ==
    {ListOf([k \in 1..n |-> Num(q[k] * Unit)]) : n \in 0..MaxIdx, q \in [1..MaxIdx -> 0..(MaxLen + 1)]}
      \cup {Range0, ListOf(<<Num(Unit + 1), Num(Unit)>>), ListOf(<<Num(Unit + epsilon)>>),
            ListOf(<<Str(1)>>)}

ScalarIndices ==
    {Lit(Num(d)) : d \in (-Unit)..((MaxLen + 1) * Unit)} \cup {Lit(Str(1)), Lit(Nix)}

ScalarVals == {Lit(Num(7 * Unit)), Lit(Str(7)), Lit(Nix), Lit(Bool(TRUE))}

ListVals ==
    {NumList(6, n) : n \in 0..(MaxIdx + 1)} \cup {StrList(6, n) : n \in 1..(MaxIdx + 1)}
      \cup {Range0}

MaxTick == 6

RangeEnds == {Lit(Num(d)) : d \in (-2)..MaxTick} \cup {Lit(Str(1))}
RangeSteps == {None, Lit(Str(1)), Lit(Nix)} \cup {Lit(Num(d)) : d \in (-2)..(Unit + 1)}

LiteralElems == {Num(Unit), Num(2 * Unit), Str(1), Nix}

ListEntries ==
    {[fam |-> "index", target |-> T, index |-> I, val |-> None, to |-> None, ub |-> FALSE] :
        T \in Targets, I \in IndexLists \cup ScalarIndices}
      \cup
    {[fam |-> "indexAssign", target |-> T, index |-> I, val |-> R, to |-> None, ub |-> ub] :
        T \in Targets, I \in IndexLists \cup ScalarIndices,
        R \in ScalarVals \cup ListVals, ub \in BOOLEAN}
      \cup
    {[fam |-> "range", target |-> a, index |-> s, val |-> None, to |-> b, ub |-> FALSE] :
        a \in RangeEnds, s \in RangeSteps, b \in RangeEnds}
      \cup
    {[fam |-> "literal", target |-> ListOf(es), index |-> None, val |-> None, to |-> None,
      ub |-> FALSE] :
        es \in UNION {[1..n -> LiteralElems] : n \in 0..MaxLen}}

InitList ==
    /\ envs = <<EmptySlots>>
    /\ m_env = m_global
    /\ heap = <<>>
    /\ m_val = Nix
    /\ hadRuntimeError = FALSE
    /\ lexer = NoLexer
    /\ parser = NoParser
    /\ rangeEval = NoRange
    /\ run \in {PendingRun(entry) : entry \in ListEntries}

TheX == Variable("x", NoDepth)
SetUp(c) == Expression(Assign("x", "EQUAL", NoDepth, ToExpr(c)))

\* the lists after the set-up statement and after the whole run
Snap(setUp, res) ==
    [x |-> setUp.envs[m_global]["x"], heap |-> setUp.heap, heapAfter |-> res.heap]

\* x = T; x[I];
RunIndex ==
    /\ Pending("index")
    /\ LET e == run.entry
           prog == <<SetUp(e.target), Expression(Index(TheX, ToExpr(e.index)))>>
           res == interpret(prog, Start(e.ub))
       IN  Finish(e, res, Snap(ExecStmts(<<prog[1]>>, 1, Start(e.ub)), res))

\* x = T; x[I] = R;
RunIndexAssign ==
    /\ Pending("indexAssign")
    /\ LET e == run.entry
           prog == <<SetUp(e.target), Expression(IndexAssign(TheX, ToExpr(e.index), ToExpr(e.val)))>>
           res == interpret(prog, Start(e.ub))
       IN  Finish(e, res, Snap(ExecStmts(<<prog[1]>>, 1, Start(e.ub)), res))

\* x = a..s..b;
RunRange ==
    /\ Pending("range")
    /\ LET e == run.entry
           prog == <<Expression(Assign("x", "EQUAL", NoDepth,
                         RangeExpr(ToExpr(e.target), ToExpr(e.index), ToExpr(e.to))))>>
           res == interpret(prog, Start(e.ub))
       IN  Finish(e, res, Snap(Start(e.ub), res))

\* x = [e1, ...];
RunListLiteral ==
    /\ Pending("literal")
    /\ LET e == run.entry
           res == interpret(<<SetUp(e.target)>>, Start(e.ub))
       IN  Finish(e, res, Snap(Start(e.ub), res))

NextList == RunIndex \/ RunIndexAssign \/ RunRange \/ RunListLiteral

SpecList == InitList /\ [][NextList]_vars

(***************************************************************************)
(* Entries `(x = CALLEE)(y = 1, .., y = n);`: the callee and every         *)
(* argument is an assignment, so that the record of the run tells which of *)
(* them were evaluated and in which order.  errAt names the argument that  *)
(* is `1 + "a"` instead (0: none).                                         *)
(***************************************************************************)
MaxArgs == 2     \* arguments of a call

Callees == {"fn0", "fn1", "fn2", "num", "str", "nix"}

CalleeExpr(c) ==
    CASE c = "fn0" -> Lambda(<<>>, FnBody)
      [] c = "fn1" -> Lambda(<<"x">>, FnBody)
      [] c = "fn2" -> Lambda(<<"x", "y">>, FnBody)
      [] c = "num" -> Literal(Num(Unit))
      [] c = "str" -> Literal(Str(1))
      [] c = "nix" -> Literal(Nix)

CallArg(i, errAt) ==
    IF i = errAt THEN ErrExpr
    ELSE Assign("y", "EQUAL", NoDepth, Literal(Num(i * Unit)))

CallEntries ==
    {e \in [fam : {"call"}, callee : Callees, nargs : 0..MaxArgs, errAt : 0..MaxArgs] :
        e.errAt <= e.nargs}

InitCall ==
    /\ envs \in {<<g>> : g \in [Names -> {Unbound, Num(0)}]}
    /\ m_env = m_global
    /\ heap = <<>>
    /\ m_val = Nix
    /\ hadRuntimeError = FALSE
    /\ lexer = NoLexer
    /\ parser = NoParser
    /\ rangeEval = NoRange
    /\ run \in {PendingRun(entry) : entry \in CallEntries}

RunCall ==
    /\ Pending("call")
    /\ LET e == run.entry
           callee == ParenGroup(Assign("x", "EQUAL", NoDepth, CalleeExpr(e.callee)))
           args == [i \in 1..e.nargs |-> CallArg(i, e.errAt)]
       IN  Finish(e, interpret(<<Expression(Call(callee, args))>>, Start(FALSE)), 0)

NextCall == RunCall

SpecCall == InitCall /\ [][NextCall]_vars

(***************************************************************************)
(* Entries `for (x = 0; (y = x) < k; x = x + 1) BODY`, each clause there   *)
(* or left out.  Every clause and the body is or holds an assignment, so   *)
(* that the record of the run tells what ran, in which order and in which  *)
(* scope: the initializer assigns 0 to x, the increment a larger number,   *)
(* the condition assigns a number to y and the body the string "a".  A     *)
(* body with a continue or break goes on with `y = "b"`, which must not    *)
(* run.  Without an initializer x is the root's x.                         *)
(***************************************************************************)
MaxCond == 2     \* the k of a condition, in units

ForEntries ==
    {e \in [fam : {"for"}, init : BOOLEAN, cond : -1..MaxCond, incr : BOOLEAN,
            body : {"stmt", "block", "nested"}, leaf : {"none", "continue", "break"}] :
        e.body = "stmt" => e.leaf = "none"}

\* the resolver's depth for x, read or assigned d scopes below the loop head
XDepth(e, d) == IF e.init THEN d ELSE NoDepth

ForInit(e) ==
    IF e.init THEN Assign("x", "EQUAL", 0, Literal(Num(0))) ELSE NoExpr

\* Parser::forstmt puts the literal true for a condition left out
ForCond(e) ==
    IF e.cond = -1 THEN Literal(Bool(TRUE))
    ELSE Binary(ParenGroup(Assign("y", "EQUAL", 0, Variable("x", XDepth(e, 0)))),
                "LESS", Literal(Num(e.cond * Unit)))

ForIncr(e) ==
    IF e.incr
    THEN Assign("x", "EQUAL", XDepth(e, 0),
                Binary(Variable("x", XDepth(e, 0)), "PLUS", Literal(Num(Unit))))
    ELSE NoExpr

\* the statements of a body, d scopes below the loop head
BodyStmts(e, d) ==
    <<Expression(Assign("y", "EQUAL", d, Literal(Str(1))))>>
      \o (IF e.leaf = "continue" THEN <<Continue>>
          ELSE IF e.leaf = "break" THEN <<Break>> ELSE <<>>)
      \o (IF e.leaf = "none" THEN <<>>
          ELSE <<Expression(Assign("y", "EQUAL", d, Literal(Str(2))))>>)

ForBodyStmt(e) ==
    IF e.body = "stmt" THEN BodyStmts(e, 0)[1]
    ELSE IF e.body = "block" THEN Block(BodyStmts(e, 0))
    ELSE Block(<<Block(BodyStmts(e, 1))>>)

InitFor ==
    /\ envs \in {<<[x |-> Num(0), y |-> v]>> : v \in {Unbound, Num(0)}}
    /\ m_env = m_global
    /\ heap = <<>>
    /\ m_val = Nix
    /\ hadRuntimeError = FALSE
    /\ lexer = NoLexer
    /\ parser = NoParser
    /\ rangeEval = NoRange
    /\ run \in {PendingRun(entry) : entry \in ForEntries}

RunFor ==
    /\ Pending("for")
    /\ LET e == run.entry
       IN  Finish(e, interpret(<<For(ForInit(e), ForCond(e), ForIncr(e), ForBodyStmt(e))>>,
                               Start(FALSE)), 0)

NextFor == RunFor

SpecFor == InitFor /\ [][NextFor]_vars

(***************************************************************************)
(* Entries `for (x in (y = LIST)) BODY`: the list holds `len` numbers or   *)
(* strings (len = -1: the iterable is a number), and the body is or holds  *)
(* `y = x`, so that the record of the run tells which elements were        *)
(* visited, in which order, and where x was bound when the body ran.       *)
(***************************************************************************)
RangedForEntries ==
    {e \in [fam : {"rangedFor"}, len : -1..MaxLen, type : {"num", "str"},
            body : {"stmt", "block", "nested"}, leaf : {"none", "continue", "break"}] :
        e.body = "stmt" => e.leaf = "none"}

\* the i-th element of the list of an entry
Elem(e, i) == IF e.type = "num" THEN Num(i * Unit) ELSE Str(i)

Iterable(e) ==
    ParenGroup(Assign("y", "EQUAL", NoDepth,
        IF e.len = -1 THEN Literal(Num(Unit))
        ELSE ListExpr([i \in 1..e.len |-> Literal(Elem(e, i))])))

\* the statements of a body, d scopes below the loop head
RangedBodyStmts(e, d) ==
    <<Expression(Assign("y", "EQUAL", NoDepth, Variable("x", d)))>>
      \o (IF e.leaf = "continue" THEN <<Continue>>
          ELSE IF e.leaf = "break" THEN <<Break>> ELSE <<>>)
      \o (IF e.leaf = "none" THEN <<>>
          ELSE <<Expression(Assign("y", "EQUAL", NoDepth, Literal(Nix)))>>)

RangedBodyStmt(e) ==
    IF e.body = "stmt" THEN RangedBodyStmts(e, 0)[1]
    ELSE IF e.body = "block" THEN Block(RangedBodyStmts(e, 0))
    ELSE Block(<<Block(RangedBodyStmts(e, 1))>>)

InitRangedFor ==
    /\ envs \in {<<g>> : g \in [Names -> {Unbound, Num(0)}]}
    /\ m_env = m_global
    /\ heap = <<>>
    /\ m_val = Nix
    /\ hadRuntimeError = FALSE
    /\ lexer = NoLexer
    /\ parser = NoParser
    /\ rangeEval = NoRange
    /\ run \in {PendingRun(entry) : entry \in RangedForEntries}

RunRangedFor ==
    /\ Pending("rangedFor")
    /\ LET e == run.entry
       IN  Finish(e, interpret(<<RangedFor(InExpr("x", 0, Iterable(e)), RangedBodyStmt(e))>>,
                               Start(FALSE)), 0)

NextRangedFor == RunRangedFor

SpecRangedFor == InitRangedFor /\ [][NextRangedFor]_vars

(***************************************************************************)
(* The Lexer (src/src/Lexer.cpp).  A source is a sequence of characters,   *)
(* each a string of length one; m_current and m_start count from 0 as in   *)
(* the source.  Every method is an operator from a Lexer to a Lexer.       *)
(***************************************************************************)
NUL == "NUL"     \* the character '\0' that peek returns at the end

Quote == "\""
Backtick == "BACKTICK"   \* the character 0x60
Backslash == "\\"
Newline == "\n"

isAtEnd(L) == L.m_current >= Len(L.m_src)

\* m_src.at(i)
at(L, i) == L.m_src[i + 1]

\* Lexer::advance, for its effect; the character returned is peek's
advance(L) == [L EXCEPT !.m_current = @ + 1]

peek(L) == IF isAtEnd(L) THEN NUL ELSE at(L, L.m_current)

peekby2(L) == IF L.m_current + 1 >= Len(L.m_src) THEN NUL ELSE at(L, L.m_current + 1)

\* Lexer::isNext: what it returns, and the Lexer it leaves
isNext(L, c) == ~isAtEnd(L) /\ at(L, L.m_current) = c
afterIsNext(L, c) == IF isNext(L, c) THEN advance(L) ELSE L

isDigit(c) == c \in {"0", "1", "2", "3", "4", "5", "6", "7", "8", "9"}

Letters ==
    {"a", "b", "c", "d", "e", "f", "g", "h", "i", "j", "k", "l", "m", "n", "o", "p",
     "q", "r", "s", "t", "u", "v", "w", "x", "y", "z"}

isAlphaOrUnderscore(c) == c \in Letters \/ c = "_"

isAlphaNumeric(c) == isDigit(c) \/ isAlphaOrUnderscore(c)

\* a report of Proto::error that puts the offending character back
lexErrorUnread(L, msg) ==
    [L EXCEPT !.errors = Append(@, [line |-> L.m_line, msg |-> msg]),
              !.m_current = @ - 1]

\* Proto::error(line, msg, lexeme)
lexError(L, msg) == [L EXCEPT !.errors = Append(@, [line |-> L.m_line, msg |-> msg])]

\* the character an escape sequence stands for
Escaped(c) == IF c = "n" THEN Newline ELSE IF c = "t" THEN "\t" ELSE c

\* the loop of addToken that substitutes the escape sequences, from i on
RECURSIVE Escapes(_, _)
Escapes(lexeme, i) ==
    IF i >= Len(lexeme) THEN lexeme
    ELSE IF lexeme[i + 1] = Backslash /\ i + 1 < Len(lexeme)
              /\ lexeme[i + 2] \in {"n", "t", Quote, Backslash}
         THEN Escapes(SubSeq(lexeme, 1, i) \o <<Escaped(lexeme[i + 2])>>
                          \o SubSeq(lexeme, i + 3, Len(lexeme)), i + 1)
         ELSE Escapes(lexeme, i + 1)

\* Lexer::addToken
addToken(L, type, ltype) ==
    [L EXCEPT !.m_tokens = Append(@,
        [type |-> type,
         lexeme |-> IF ltype = "STR"
                    THEN Escapes(SubSeq(L.m_src, L.m_start + 2, L.m_current - 1), 0)
                    ELSE SubSeq(L.m_src, L.m_start + 1, L.m_current),
         line |-> L.m_line, ltype |-> ltype])]

\* the loop of Lexer::string
RECURSIVE StringLoop(_)
StringLoop(L) ==
    IF isAtEnd(L) THEN L
    ELSE IF peek(L) # Quote
         THEN StringLoop(advance(
                  IF peek(L) = Newline THEN [L EXCEPT !.m_line = @ + 1] ELSE L))
    ELSE IF at(L, L.m_current - 1) = Backslash /\ at(L, L.m_current - 2) # Backslash
         THEN StringLoop(advance(L))
    ELSE L

\* Lexer::string
string(L) ==
    Then(StringLoop(L), LAMBDA S :
        IF isAtEnd(S) THEN lexError(S, "Unterminated String")
        ELSE addToken(advance(S), "STRING", "STR"))

\* while (isDigit(peek())) advance();
RECURSIVE Digits(_)
Digits(L) == IF isDigit(peek(L)) THEN Digits(advance(L)) ELSE L

\* the fractional part of Lexer::number
Fraction(L) ==
    IF peek(L) = "." /\ isDigit(peekby2(L)) THEN Digits(advance(L)) ELSE L

\* the sign of an exponent
Sign(L) ==
    IF peek(L) \in {"+", "-"} /\ isDigit(peekby2(L)) THEN advance(L) ELSE L

\* the exponent of Lexer::number
Exponent(L) ==
    IF peek(L) = "e" /\ (isDigit(peekby2(L)) \/ peekby2(L) \in {"+", "-"})
    THEN Digits(Sign(advance(L)))
    ELSE L

\* Lexer::number
number(L) == addToken(Exponent(Fraction(Digits(L))), "NUMBER", "NUM")

\* the keyword table (includes/Lexer.hpp)
KeywordTable ==
    {[str |-> <<"a", "n", "d">>, type |-> "AND"], [str |-> <<"o", "r">>, type |-> "OR"],
     [str |-> <<"i", "f">>, type |-> "IF"], [str |-> <<"e", "l", "s", "e">>, type |-> "ELSE"],
     [str |-> <<"w", "h", "i", "l", "e">>, type |-> "WHILE"],
     [str |-> <<"f", "o", "r">>, type |-> "FOR"],
     [str |-> <<"b", "r", "e", "a", "k">>, type |-> "BREAK"],
     [str |-> <<"c", "o", "n", "t", "i", "n", "u", "e">>, type |-> "CONTINUE"],
     [str |-> <<"f", "n">>, type |-> "FUNCTION"],
     [str |-> <<"r", "e", "t", "u", "r", "n">>, type |-> "RETURN"],
     [str |-> <<"i", "n">>, type |-> "IN"],
     [str |-> <<"c", "l", "a", "s", "s">>, type |-> "CLASS"],
     [str |-> <<"t", "r", "u", "e">>, type |-> "TRUE"],
     [str |-> <<"f", "a", "l", "s", "e">>, type |-> "FALSE"],
     [str |-> <<"n", "i", "x">>, type |-> "NIX"]}

Keywords == {kw.str : kw \in KeywordTable}

\* keywords.at(str)
KeywordType(str) == (CHOOSE kw \in KeywordTable : kw.str = str).type

RECURSIVE AlphaNumerics(_)
AlphaNumerics(L) == IF isAlphaNumeric(peek(L)) THEN AlphaNumerics(advance(L)) ELSE L

\* Lexer::identifierOrKeyword
identifierOrKeyword(L) ==
    Then(AlphaNumerics(L), LAMBDA I :
        Then(SubSeq(I.m_src, I.m_start + 1, I.m_current), LAMBDA str :
            IF str \in Keywords
            THEN IF str = <<"n", "i", "x">> THEN addToken(I, KeywordType(str), "NIX")
                 ELSE IF str = <<"t", "r", "u", "e">> THEN addToken(I, KeywordType(str), "TRUE")
                 ELSE IF str = <<"f", "a", "l", "s", "e">>
                      THEN addToken(I, KeywordType(str), "FALSE")
                 ELSE addToken(I, KeywordType(str), "NONE")
            ELSE addToken(I, "IDENTIFIER", "NONE")))

\* while (peek() != '\n' && !isAtEnd()) advance();
RECURSIVE LineComment(_)
LineComment(L) ==
    IF peek(L) # Newline /\ ~isAtEnd(L) THEN LineComment(advance(L)) ELSE L

\* the loop of a multi-line comment:
\* while (!(isNext(']') && isNext('/')) && !isAtEnd()) { ... advance(); }
RECURSIVE MultiLineComment(_)
MultiLineComment(L) ==
    Then(afterIsNext(L, "]"), LAMBDA B :
        IF isNext(L, "]") /\ isNext(B, "/") THEN advance(B)
        ELSE IF isAtEnd(B) THEN B
        ELSE MultiLineComment(advance(
                 IF peek(B) = Newline THEN [B EXCEPT !.m_line = @ + 1] ELSE B)))

\* a token of one character, or of two when c follows
OneOrTwo(L, c, two, one) ==
    IF isNext(L, c) THEN addToken(advance(L), two, "NONE") ELSE addToken(L, one, "NONE")

SingleChars ==
    [type : {"LPAREN"}, c : {"("}] \cup [type : {"RPAREN"}, c : {")"}]
      \cup [type : {"LBRACE"}, c : {"{"}] \cup [type : {"RBRACE"}, c : {"}"}]
      \cup [type : {"LSQRBRKT"}, c : {"["}] \cup [type : {"RSQRBRKT"}, c : {"]"}]
      \cup [type : {"COMMA"}, c : {","}] \cup [type : {"SEMICOLON"}, c : {";"}]
      \cup [type : {"EXPONENTATION"}, c : {"^"}]

\* Lexer::scanToken; A is the Lexer after `auto c = advance();`
scanToken(L) ==
    Then(peek(L), LAMBDA c : Then(advance(L), LAMBDA A :
        IF \E s \in SingleChars : s.c = c
            THEN addToken(A, (CHOOSE s \in SingleChars : s.c = c).type, "NONE")
        ELSE IF c = "+" THEN OneOrTwo(A, "=", "PLUS_EQUAL", "PLUS")
        ELSE IF c = "-" THEN OneOrTwo(A, "=", "MINUS_EQUAL", "MINUS")
        ELSE IF c = "*" THEN OneOrTwo(A, "=", "PROD_EQUAL", "PRODUCT")
        ELSE IF c = "!" THEN OneOrTwo(A, "=", "NOT_EQUAL", "NOT")
        ELSE IF c = "=" THEN OneOrTwo(A, "=", "EQ_EQUAL", "EQUAL")
        ELSE IF c = Backtick
            THEN IF isNext(A, "=") THEN addToken(advance(A), "BT_EQUAL", "NONE")
                 ELSE lexError(A, "Unexpected character")
        ELSE IF c = ">" THEN OneOrTwo(A, "=", "GT_EQUAL", "GREATER")
        ELSE IF c = "<" THEN OneOrTwo(A, "=", "LT_EQUAL", "LESS")
        ELSE IF c = "/"
            THEN IF isNext(A, "/") THEN LineComment(advance(A))
                 ELSE IF isNext(A, "[") THEN MultiLineComment(advance(A))
                 ELSE OneOrTwo(A, "=", "DIV_EQUAL", "DIVISON")
        ELSE IF c \in {" ", "\t", "\r"} THEN A
        ELSE IF c = Newline THEN [A EXCEPT !.m_line = @ + 1]
        ELSE IF c = Quote THEN string(A)
        ELSE IF isDigit(c) \/ (c = "." /\ isDigit(peek(A))) THEN number(A)
        ELSE IF c = "." /\ isNext(A, ".") THEN addToken(advance(A), "DOT_DOT", "NONE")
        ELSE IF isAlphaOrUnderscore(c) THEN identifierOrKeyword(A)
        ELSE lexError(A, "Unexpected character")))

(***************************************************************************)
(* Lexer::scanTokens, one call of scanToken at a time.                     *)
(***************************************************************************)
\* the sources of at most n characters of the alphabet
SourcesOver(alphabet, n) == UNION {[1..k -> alphabet] : k \in 0..n}

\* the interpreter does not run while a source is read
Idle ==
    /\ envs = <<EmptySlots>> /\ m_env = m_global /\ heap = <<>> /\ m_val = Nix
    /\ hadRuntimeError = FALSE /\ run = PendingRun([fam |-> "source"])
    /\ rangeEval = NoRange

\* one turn of the loop of scanTokens
ScanToken ==
    /\ ~lexer.done /\ ~isAtEnd(lexer)
    /\ lexer' = scanToken([lexer EXCEPT !.m_start = lexer.m_current,
                                        !.steps = Append(@, lexer.m_current)])
    /\ UNCHANGED <<envs, m_env, heap, m_val, hadRuntimeError, run, parser, rangeEval>>

\* the end of scanTokens: the EOF token
ScanEnd ==
    /\ ~lexer.done /\ isAtEnd(lexer)
    /\ lexer' = [lexer EXCEPT
                    !.m_tokens = Append(@, [type |-> "EOF_", lexeme |-> <<>>,
                                            line |-> lexer.m_line, ltype |-> "NONE"]),
                    !.done = TRUE]
    /\ UNCHANGED <<envs, m_env, heap, m_val, hadRuntimeError, run, parser, rangeEval>>

NextLexer == ScanToken \/ ScanEnd

(***************************************************************************)
(* Sources over the characters that start or make up every kind of token   *)
(* and every lex error.                                                    *)
(***************************************************************************)
MaxSrc == 3      \* characters of a source

AllChars ==
    {Quote, Backslash, Backtick, "=", "#", "/", "[", "]", Newline, "1", ".", "e", "a"}

InitLexer ==
    /\ Idle
    /\ parser = NoParser
    /\ lexer \in {NewLexer(src) : src \in SourcesOver(AllChars, MaxSrc)}

\* scanTokens is a loop that runs until it returns
SpecLexer == InitLexer /\ [][NextLexer]_vars /\ WF_vars(NextLexer)

(***************************************************************************)
(* Sources that begin with the opener of a multi-line comment, with a      *)
(* string literal, or with a number.                                       *)
(***************************************************************************)
MaxComment == 5  \* characters after the opener of a comment
MaxString == 5   \* characters after the opening quote of a string
MaxNumber == 5   \* characters of a source of numbers

CommentSources ==
    {<<"/", "[">> \o body : body \in SourcesOver({"]", "/", "[", Newline, "a"}, MaxComment)}

StringSources ==
    {<<Quote>> \o body : body \in SourcesOver({Quote, Backslash, "n", "a"}, MaxString)}

NumberSources == SourcesOver({"1", ".", "e", "+", "-", "a"}, MaxNumber)

InitTokens ==
    /\ Idle
    /\ parser = NoParser
    /\ lexer \in {NewLexer(src) : src \in CommentSources \cup StringSources \cup NumberSources}

SpecTokens == InitTokens /\ [][NextLexer]_vars

(***************************************************************************)
(* The Parser (src/src/Parser.cpp): recursive descent.  Every production   *)
(* is an operator from a Parser to a Parser that leaves what it returned   *)
(* in `node`; a ParseError thrown is sig = "error", which every production *)
(* hands on at once and which statement() catches.                         *)
(***************************************************************************)
\* Parser::peek and Parser::previous
peekToken(P) == P.m_tokens[P.m_current + 1]
previous(P) == P.m_tokens[P.m_current]

\* Parser::isAtEnd
isAtEndOfTokens(P) == peekToken(P).type = "EOF_"

isNextType(P, type) == ~isAtEndOfTokens(P) /\ peekToken(P).type = type

isNextNextType(P, type) ==
    /\ ~isAtEndOfTokens(P)
    /\ P.m_tokens[P.m_current + 2].type # "EOF_"
    /\ P.m_tokens[P.m_current + 2].type = type

\* Parser::advance, for its effect
advanceToken(P) == IF ~isAtEndOfTokens(P) THEN [P EXCEPT !.m_current = @ + 1] ELSE P

\* Parser::match: what it returns; the advance() is taken where it returns true
match(P, types) == \E type \in types : isNextType(P, type)

\* Parser::error: the report to Proto::error
error(P, msg) == [P EXCEPT !.errors = Append(@, msg)]

\* throw error(peek(), err)
ThrowParseError(P, msg) == [error(P, msg) EXCEPT !.sig = "error"]

\* Parser::matchWithErr
matchWithErr(P, type, err) ==
    IF isNextType(P, type) THEN advanceToken(P) ELSE ThrowParseError(P, err)

\* return node; from a production
Returns(P, node) == [P EXCEPT !.node = node]

\* the loop of Parser::sync
RECURSIVE SyncLoop(_)
SyncLoop(P) ==
    IF isAtEndOfTokens(P) THEN P
    ELSE IF previous(P).type = "SEMICOLON" THEN P
    ELSE IF peekToken(P).type \in {"CLASS", "IF", "WHILE", "FOR", "FUNCTION", "RETURN"} THEN P
    ELSE SyncLoop(advanceToken(P))

\* sync() that leaves the erroneous token where it is when that token is one
\* the loop stops at
syncAtKeyword(P) ==
    IF peekToken(P).type \in {"CLASS", "IF", "WHILE", "FOR", "FUNCTION", "RETURN"} THEN P
    ELSE SyncLoop(advanceToken(P))

\* Parser::sync
sync(P) == SyncLoop(advanceToken(P))

\* the value of a literal token (Literal::Literal, includes/Expressions.hpp)
LiteralValue(tok) ==
    IF tok.type = "TRUE" THEN Bool(TRUE)
    ELSE IF tok.type = "FALSE" THEN Bool(FALSE)
    ELSE IF tok.type = "NIX" THEN Nix
    ELSE IF tok.type = "NUMBER" THEN Num(Unit)
    ELSE Str(1)

\* Every production calls the others through Rule, defined after them.
RECURSIVE Rule(_, _)

\* Parser::expression
expression(P) == Rule("assignment", P)

\* the loop of Parser::block
RECURSIVE BlockLoop(_, _)
BlockLoop(P, statements) ==
    IF ~isNextType(P, "RBRACE") /\ ~isAtEndOfTokens(P)
    THEN Then(Rule("statement", P), LAMBDA S :
             IF S.sig # "ok" THEN S ELSE BlockLoop(S, Append(statements, S.node)))
    ELSE Then(matchWithErr(P, "RBRACE", "Expected a '}' at the end of the block."), LAMBDA M :
             IF M.sig # "ok" THEN M ELSE Returns(M, statements))

\* Parser::block
block(P) == BlockLoop(P, <<>>)

\* do { expressions.push_back(expression()); } while (match(COMMA));
RECURSIVE Expressions(_, _)
Expressions(P, expressions) ==
    Then(Rule("expression", P), LAMBDA E :
        IF E.sig # "ok" THEN E
        ELSE IF match(E, {"COMMA"})
             THEN Expressions(advanceToken(E), Append(expressions, E.node))
        ELSE Returns(E, Append(expressions, E.node)))

\* Parser::list
list(P) ==
    Then(IF ~isNextType(P, "RSQRBRKT") THEN Expressions(P, <<>>) ELSE Returns(P, <<>>),
         LAMBDA L :
        IF L.sig # "ok" THEN L
        ELSE Then(matchWithErr(L, "RSQRBRKT", "Expected a ']' after list end."), LAMBDA M :
                 IF M.sig # "ok" THEN M ELSE Returns(M, ListExpr(L.node))))

\* do { matchWithErr(IDENTIFIER, ..); params.push_back(previous()); }
\* while (match(COMMA));
RECURSIVE Params(_, _)
Params(P, params) ==
    Then(matchWithErr(P, "IDENTIFIER", "Expected a parameter name after ','."), LAMBDA M :
        IF M.sig # "ok" THEN M
        ELSE IF match(M, {"COMMA"})
             THEN Params(advanceToken(M), Append(params, previous(M).lexeme))
        ELSE Returns(M, Append(params, previous(M).lexeme)))

\* the parameters and the body of a lambda or of a function definition, after
\* the '(': node is <<params, body>>.  ParamsOf pairs the parameters with the
\* body parsed in K.
ParamsOf(params, K) ==
    IF K.sig # "ok" THEN K ELSE Returns(K, <<params, K.node>>)

\* the parameters of a lambda or of a function definition up to the '{' of
\* the body: node is the parameter list
Signature(P, of) ==
    Then(IF ~isNextType(P, "RPAREN") THEN Params(P, <<>>) ELSE Returns(P, <<>>), LAMBDA A :
        IF A.sig # "ok" THEN A
        ELSE Then(matchWithErr(A, "RPAREN",
                      IF of = "lambda" THEN "Expected a ')' after lambda parameters."
                      ELSE "Expected a ')' after function parameters."), LAMBDA R :
            IF R.sig # "ok" THEN R
            ELSE Returns(matchWithErr(R, "LBRACE",
                             IF of = "lambda" THEN "Expected a '{' before lambda body."
                             ELSE "Expected a '{' before function body."), A.node)))

\* the body of a lambda or of a function definition after its signature H
BodyOf(H) ==
    IF H.sig # "ok" THEN H ELSE ParamsOf(H.node, block(H))

ParamsAndBody(P, of) ==
    BodyOf(Signature(P, of))

\* Parser::primary
primary(P) ==
    CASE match(P, {"TRUE", "FALSE", "NIX", "NUMBER", "STRING"}) ->
            Returns(advanceToken(P), Literal(LiteralValue(peekToken(P))))
      [] match(P, {"LPAREN"}) ->
            Then(Rule("expression", advanceToken(P)), LAMBDA E :
                IF E.sig # "ok" THEN E
                ELSE Then(matchWithErr(E, "RPAREN", "Expected ')' after expression."),
                          LAMBDA M :
                         IF M.sig # "ok" THEN M ELSE Returns(M, ParenGroup(E.node))))
      [] match(P, {"IDENTIFIER"}) ->
            Returns(advanceToken(P), Variable(peekToken(P).lexeme, NoDepth))
      [] match(P, {"FUNCTION"}) ->
            Then(matchWithErr(advanceToken(P), "LPAREN", "Expected a '(' after fn"),
                 LAMBDA M :
                IF M.sig # "ok" THEN M
                ELSE Then(ParamsAndBody(M, "lambda"), LAMBDA B :
                         IF B.sig # "ok" THEN B
                         ELSE Returns(B, Lambda(B.node[1], B.node[2]))))
      [] match(P, {"LSQRBRKT"}) -> Rule("list", advanceToken(P))
      [] OTHER -> ThrowParseError(P, "Invalid Syntax.")

\* the loop of Parser::index_or_call; P.node is the expression so far.  The
\* limit of 127 arguments is beyond the token vectors of the model.
RECURSIVE IndexOrCallLoop(_)
IndexOrCallLoop(P) ==
    IF match(P, {"LPAREN"})
    THEN Then(IF ~isNextType(advanceToken(P), "RPAREN")
              THEN Expressions(advanceToken(P), <<>>)
              ELSE Returns(advanceToken(P), <<>>), LAMBDA G :
             IF G.sig # "ok" THEN G
             ELSE Then(matchWithErr(G, "RPAREN", "Expected a ')' after function arguments."),
                       LAMBDA M :
                      IF M.sig # "ok" THEN M
                      ELSE IndexOrCallLoop(Returns(M, Call(P.node, G.node)))))
    ELSE IF match(P, {"LSQRBRKT"})
    THEN Then(IF match(advanceToken(P), {"LSQRBRKT"})
              THEN Rule("list", advanceToken(advanceToken(P)))
              ELSE Rule("expression", advanceToken(P)), LAMBDA I :
             IF I.sig # "ok" THEN I
             ELSE Then(matchWithErr(I, "RSQRBRKT", "Expected a ']' after index end."),
                       LAMBDA M :
                      IF M.sig # "ok" THEN M
                      ELSE IndexOrCallLoop(Returns(M, Index(P.node, I.node)))))
    ELSE P

\* Parser::index_or_call
index_or_call(P) ==
    Then(primary(P), LAMBDA E : IF E.sig # "ok" THEN E ELSE IndexOrCallLoop(E))

\* Parser::exponentiation
exponentiation(P) ==
    Then(index_or_call(P), LAMBDA B :
        IF B.sig # "ok" THEN B
        ELSE IF match(B, {"EXPONENTATION"})
             THEN Then(Rule("exponentiation", advanceToken(B)), LAMBDA E :
                      IF E.sig # "ok" THEN E
                      ELSE Returns(E, Binary(B.node, "EXPONENTATION", E.node)))
        ELSE B)

\* Parser::unary
unary(P) ==
    IF match(P, {"NOT", "MINUS"})
    THEN Then(Rule("unary", advanceToken(P)), LAMBDA R :
             IF R.sig # "ok" THEN R ELSE Returns(R, Unary(peekToken(P).type, R.node)))
    ELSE exponentiation(P)

\* The productions from product() to lor() each call the production below
\* for their left operand and then run their own loop on it, so the left
\* operand of all of them is read by unary() and their loops run on it one
\* after the other, product's first.  Here are the loops; P.node is the
\* expression so far.
RECURSIVE ProductLoop(_)
ProductLoop(P) ==
    IF match(P, {"PRODUCT", "DIVISON"})
    THEN Then(Rule("unary", advanceToken(P)), LAMBDA R :
             IF R.sig # "ok" THEN R
             ELSE ProductLoop(Returns(R, Binary(P.node, peekToken(P).type, R.node))))
    ELSE P

RECURSIVE AdditionLoop(_)
AdditionLoop(P) ==
    IF match(P, {"PLUS", "MINUS"})
    THEN Then(Rule("product", advanceToken(P)), LAMBDA R :
             IF R.sig # "ok" THEN R
             ELSE AdditionLoop(Returns(R, Binary(P.node, peekToken(P).type, R.node))))
    ELSE P

\* Parser::range after its first addition(), which is P.node
RangeTail(P) ==
    IF ~match(P, {"DOT_DOT"}) THEN P
    ELSE Then(Rule("addition", advanceToken(P)), LAMBDA B :
        IF B.sig # "ok" THEN B
        ELSE IF ~match(B, {"DOT_DOT"}) THEN Returns(B, RangeExpr(P.node, NoExpr, B.node))
        ELSE Then(Rule("addition", advanceToken(B)), LAMBDA C :
            IF C.sig # "ok" THEN C
            ELSE Returns(C, RangeExpr(P.node, B.node, C.node))))

RECURSIVE ComparisionLoop(_)
ComparisionLoop(P) ==
    IF match(P, {"GREATER", "GT_EQUAL", "LESS", "LT_EQUAL"})
    THEN Then(Rule("range", advanceToken(P)), LAMBDA R :
             IF R.sig # "ok" THEN R
             ELSE ComparisionLoop(Returns(R, Binary(P.node, peekToken(P).type, R.node))))
    ELSE P

RECURSIVE EqualityLoop(_)
EqualityLoop(P) ==
    IF match(P, {"NOT_EQUAL", "EQ_EQUAL"})
    THEN Then(Rule("comparision", advanceToken(P)), LAMBDA R :
             IF R.sig # "ok" THEN R
             ELSE EqualityLoop(Returns(R, Binary(P.node, peekToken(P).type, R.node))))
    ELSE P

RECURSIVE LandLoop(_)
LandLoop(P) ==
    IF match(P, {"AND"})
    THEN Then(Rule("equality", advanceToken(P)), LAMBDA R :
             IF R.sig # "ok" THEN R
             ELSE LandLoop(Returns(R, Logical(P.node, "AND", R.node))))
    ELSE P

RECURSIVE LorLoop(_)
LorLoop(P) ==
    IF match(P, {"OR"})
    THEN Then(Rule("land", advanceToken(P)), LAMBDA R :
             IF R.sig # "ok" THEN R
             ELSE LorLoop(Returns(R, Logical(P.node, "OR", R.node))))
    ELSE P

\* the loop of a production
LoopAt(level, P) ==
    CASE level = 1 -> ProductLoop(P)
      [] level = 2 -> AdditionLoop(P)
      [] level = 3 -> RangeTail(P)
      [] level = 4 -> ComparisionLoop(P)
      [] level = 5 -> EqualityLoop(P)
      [] level = 6 -> LandLoop(P)
      [] level = 7 -> LorLoop(P)

\* the loops from level to last run on P in turn; a ParseError thrown in
\* one of them passes through the ones above
RECURSIVE Loops(_, _, _)
Loops(level, last, P) ==
    IF P.sig # "ok" \/ level > last THEN P
    ELSE Loops(level + 1, last, LoopAt(level, P))

\* Parser::product
product(P) == Loops(1, 1, unary(P))

\* Parser::addition
addition(P) == Loops(1, 2, unary(P))

\* Parser::range
range(P) == Loops(1, 3, unary(P))

\* Parser::comparision
comparision(P) == Loops(1, 4, unary(P))

\* Parser::equality
equality(P) == Loops(1, 5, unary(P))

\* Parser::land
land(P) == Loops(1, 6, unary(P))

\* Parser::lor
lor(P) == Loops(1, 7, unary(P))

\* the third if of Parser::assignment: the in-expression; P.node is the
\* expression parsed so far
InTail(P) ==
    IF match(P, {"IN"})
    THEN Then(Rule("assignment", advanceToken(P)), LAMBDA V :
             IF V.sig # "ok" THEN V
             ELSE IF P.node.k = "Variable"
                  THEN Returns(V, InExpr(P.node.name, NoDepth, V.node))
             ELSE Returns(error(V, "Missing identifier for iterating variable."), P.node))
    ELSE P

\* the operator a compound assignment stands for
Desugared(type) ==
    IF type = "PLUS_EQUAL" THEN "PLUS"
    ELSE IF type = "MINUS_EQUAL" THEN "MINUS"
    ELSE IF type = "PROD_EQUAL" THEN "PRODUCT"
    ELSE "DIVISON"

\* the second if of Parser::assignment, desugaring to the lazy '='
CompoundTailLazy(P) ==
    IF match(P, {"PROD_EQUAL", "DIV_EQUAL", "PLUS_EQUAL", "MINUS_EQUAL"})
    THEN Then(Rule("assignment", advanceToken(P)), LAMBDA V :
             IF V.sig # "ok" THEN V
             ELSE IF P.node.k = "Variable"
                  THEN Returns(V, Assign(P.node.name, "EQUAL", NoDepth,
                                         Binary(P.node, Desugared(peekToken(P).type), V.node)))
             ELSE InTail(Returns(error(V, "Invalid assignment location."), P.node)))
    ELSE InTail(P)

\* the second if of Parser::assignment: the compound assignments
CompoundTail(P) ==
    IF match(P, {"PROD_EQUAL", "DIV_EQUAL", "PLUS_EQUAL", "MINUS_EQUAL"})
    THEN Then(Rule("assignment", advanceToken(P)), LAMBDA V :
             IF V.sig # "ok" THEN V
             ELSE IF P.node.k = "Variable"
                  THEN Returns(V, Assign(P.node.name, "BT_EQUAL", NoDepth,
                                         Binary(P.node, Desugared(peekToken(P).type), V.node)))
             ELSE InTail(Returns(error(V, "Invalid assignment location."), P.node)))
    ELSE InTail(P)

\* the first if of Parser::assignment: '=' and '`='
AssignTail(P) ==
    IF match(P, {"EQUAL", "BT_EQUAL"})
    THEN Then(Rule("assignment", advanceToken(P)), LAMBDA V :
             IF V.sig # "ok" THEN V
             ELSE IF P.node.k = "Variable"
                  THEN Returns(V, Assign(P.node.name, peekToken(P).type, NoDepth, V.node))
             ELSE IF P.node.k = "Index"
                  THEN Returns(V, IndexAssign(P.node.list, P.node.index, V.node))
             ELSE CompoundTail(Returns(error(V, "Invalid assignment location."), P.node)))
    ELSE CompoundTail(P)

\* Parser::assignment
assignment(P) == Then(lor(P), LAMBDA E : IF E.sig # "ok" THEN E ELSE AssignTail(E))

\* Parser::exprstmt
exprstmt(P) ==
    Then(expression(P), LAMBDA E :
        IF E.sig # "ok" THEN E
        ELSE IF E.m_allowExpr /\ isAtEndOfTokens(E)
             THEN Returns([E EXCEPT !.m_foundExpr = TRUE], Expression(E.node))
        ELSE Then(matchWithErr(E, "SEMICOLON",
                      "Invalid Syntax. Did you miss a ';' after the expression?"), LAMBDA M :
                 IF M.sig # "ok" THEN M ELSE Returns(M, Expression(E.node))))

\* Parser::returnstmt
returnstmt(P) ==
    Then(IF ~isNextType(P, "SEMICOLON") THEN expression(P) ELSE Returns(P, NoExpr), LAMBDA V :
        IF V.sig # "ok" THEN V
        ELSE Then(matchWithErr(V, "SEMICOLON", "Expected a ';' after return value."), LAMBDA M :
                 IF M.sig # "ok" THEN M ELSE Returns(M, Return(V.node))))

\* Parser::fndefn
FuncOf(name, B) ==
    IF B.sig # "ok" THEN B ELSE Returns(B, Func(name, B.node[1], B.node[2]))

\* the name and the '(' of a function definition: node is the name
FuncHead(P) ==
    Then(matchWithErr(P, "IDENTIFIER", "A function name was expected."), LAMBDA N :
        IF N.sig # "ok" THEN N
        ELSE Returns(matchWithErr(N, "LPAREN",
                         "Expected a '(' after function name in definition."),
                     previous(N).lexeme))

FuncBody(H) ==
    IF H.sig # "ok" THEN H ELSE FuncOf(H.node, ParamsAndBody(H, "function"))

fndefn(P) ==
    FuncBody(FuncHead(P))

\* a break or continue statement noted in the history: the index of its
\* keyword, the loop depth it met and whether it was reported
Jump(P, Q) ==
    [Q EXCEPT !.jumps = Append(@, [at |-> P.m_current, depth |-> P.m_loopDepth,
                                   reported |-> Len(Q.errors) > Len(P.errors)])]

\* Parser::breakstmt
breakstmt(P) ==
    Then(matchWithErr(Jump(P, IF P.m_loopDepth = 0
                              THEN error(P, "Cannot use 'break' outside of a loop.")
                              ELSE P),
                      "SEMICOLON", "Expected a ';' after 'break'."), LAMBDA M :
        IF M.sig # "ok" THEN M ELSE Returns(M, Break))

\* Parser::contstmt
contstmt(P) ==
    Then(matchWithErr(Jump(P, IF P.m_loopDepth = 0
                              THEN error(P, "Cannot use 'continue' outside of a loop.")
                              ELSE P),
                      "SEMICOLON", "Expected a ';' after 'continue'."), LAMBDA M :
        IF M.sig # "ok" THEN M ELSE Returns(M, Continue))

\* m_loopDepth++; body = statement(); m_loopDepth--; with the decrement left
\* out for a body that failed
Unbalanced(P, S) ==
    [S EXCEPT !.m_loopDepth = IF S.node = Null THEN @ ELSE @ - 1,
              !.loops = Append(@, [from |-> P.m_current, to |-> S.m_current,
                                   before |-> P.m_loopDepth,
                                   after |-> IF S.node = Null THEN S.m_loopDepth
                                             ELSE S.m_loopDepth - 1,
                                   failed |-> Len(S.errors) > Len(P.errors)])]

LoopBodyUnbalanced(P) ==
    Unbalanced(P, Rule("statement", [P EXCEPT !.m_loopDepth = @ + 1]))

\* m_loopDepth--; after the body S of a loop entered at P.  The body is
\* noted in the history: the tokens it spans, the loop depth before and
\* after it, and whether an error was reported in it.
Balanced(P, S) ==
    [S EXCEPT !.m_loopDepth = @ - 1,
              !.loops = Append(@, [from |-> P.m_current, to |-> S.m_current,
                                   before |-> P.m_loopDepth,
                                   after |-> S.m_loopDepth - 1,
                                   failed |-> Len(S.errors) > Len(P.errors)])]

\* m_loopDepth++; body = statement(); m_loopDepth--;
LoopBody(P) ==
    Balanced(P, Rule("statement", [P EXCEPT !.m_loopDepth = @ + 1]))

\* '(' condition ')' of a while or an if statement: node is the condition
Condition(P, open, close) ==
    Then(matchWithErr(P, "LPAREN", open), LAMBDA L :
        IF L.sig # "ok" THEN L
        ELSE Then(expression(L), LAMBDA C :
            IF C.sig # "ok" THEN C ELSE Returns(matchWithErr(C, "RPAREN", close), C.node)))

WhileOf(condition, B) ==
    Returns(B, While(condition, B.node))

\* the body of a while statement after its condition H
WhileBody(H) ==
    IF H.sig # "ok" THEN H ELSE WhileOf(H.node, LoopBody(H))

\* Parser::whilestmt
whilestmt(P) ==
    WhileBody(Condition(P, "Expected a '(' after 'while'.",
                        "Expected a ')' after while condition."))

\* Parser::forstmt from the condition clause on, up to the ')'; init is the
\* first clause and node is the three clauses
ForClauses(P, init) ==
    Then(IF ~isNextType(P, "SEMICOLON") THEN expression(P)
         ELSE Returns(P, Literal(Bool(TRUE))), LAMBDA C :
        IF C.sig # "ok" THEN C
        ELSE Then(matchWithErr(C, "SEMICOLON", "Expected a ';' after for-loop condition."),
                  LAMBDA S :
            IF S.sig # "ok" THEN S
            ELSE Then(IF ~isNextType(S, "RPAREN") THEN expression(S) ELSE Returns(S, NoExpr),
                      LAMBDA I :
                IF I.sig # "ok" THEN I
                ELSE Returns(matchWithErr(I, "RPAREN", "Expected a ')' after for-loop clauses."),
                             [ranged |-> FALSE, init |-> init, cond |-> C.node,
                              incr |-> I.node]))))

\* Parser::forstmt up to the ')': node is the ranged clause or the three
\* clauses
ForHead(P) ==
    Then(matchWithErr(P, "LPAREN", "Expected a '(' after 'for'."), LAMBDA L :
        IF L.sig # "ok" THEN L
        ELSE IF match(L, {"SEMICOLON"}) THEN ForClauses(advanceToken(L), NoExpr)
        ELSE Then(expression(L), LAMBDA E :
            IF E.sig # "ok" THEN E
            ELSE IF E.node.k = "InExpr"
                 THEN Returns(matchWithErr(E, "RPAREN",
                                  "Expected a ')' after the ranged for loop clause."),
                              [ranged |-> TRUE, init |-> E.node, cond |-> NoExpr,
                               incr |-> NoExpr])
            ELSE Then(matchWithErr(E, "SEMICOLON",
                          "Expected a ';' after for-loop initialization clause."), LAMBDA S :
                     IF S.sig # "ok" THEN S ELSE ForClauses(S, E.node))))

ForOf(head, B) ==
    Returns(B, IF head.ranged THEN RangedFor(head.init, B.node)
               ELSE For(head.init, head.cond, head.incr, B.node))

\* the body of a for statement after its clauses H
ForRest(H) ==
    IF H.sig # "ok" THEN H ELSE ForOf(H.node, LoopBody(H))

\* Parser::forstmt
forstmt(P) ==
    ForRest(ForHead(P))

IfElse(condition, thenBranch, E) ==
    Returns(E, If(condition, thenBranch, E.node))

\* if (match(ELSE)) elseBranch = statement(); after the then branch T
IfOf(condition, T) ==
    IF match(T, {"ELSE"}) THEN IfElse(condition, T.node, Rule("statement", advanceToken(T)))
    ELSE Returns(T, If(condition, T.node, Null))

\* the branches of an if statement after its condition H
IfBody(H) ==
    IF H.sig # "ok" THEN H ELSE IfOf(H.node, Rule("statement", H))

\* Parser::ifstmt
ifstmt(P) ==
    IfBody(Condition(P, "Expected a '(' after 'if'.", "Expected a ')' after if condition."))

BlockOf(B) ==
    IF B.sig # "ok" THEN B ELSE Returns(B, Block(B.node))

\* the try block of Parser::statement
Production(P) ==
    CASE match(P, {"RETURN"}) -> returnstmt(advanceToken(P))
      [] isNextType(P, "FUNCTION") /\ isNextNextType(P, "IDENTIFIER") ->
            fndefn(advanceToken(P))
      [] match(P, {"LBRACE"}) -> BlockOf(block(advanceToken(P)))
      [] match(P, {"IF"}) -> ifstmt(advanceToken(P))
      [] match(P, {"WHILE"}) -> whilestmt(advanceToken(P))
      [] match(P, {"FOR"}) -> forstmt(advanceToken(P))
      [] match(P, {"BREAK"}) -> breakstmt(advanceToken(P))
      [] match(P, {"CONTINUE"}) -> contstmt(advanceToken(P))
      [] OTHER -> exprstmt(P)

\* the call of statement() that started at P and whose try block ended at
\* R is noted in the history: where the cursor was, where it is left, the
\* loop depth it ran at and whether it failed
Noted(P, R, S) ==
    [S EXCEPT !.calls = Append(@, [from |-> P.m_current, to |-> S.m_current,
                                   depth |-> P.m_loopDepth,
                                   failed |-> R.sig = "error",
                                   thrownAt |-> R.m_current])]

\* catch (const ParseError&) { sync(); return nullptr; }
Recovered(P, R) ==
    IF R.sig = "error" THEN Noted(P, R, Returns(sync([R EXCEPT !.sig = "ok"]), Null))
    ELSE Noted(P, R, R)

\* Parser::statement
statement(P) ==
    Recovered(P, Production(P))

\* the call of a production
Rule(name, P) ==
    CASE name = "expression" -> expression(P)
      [] name = "assignment" -> assignment(P)
      [] name = "lor" -> lor(P)
      [] name = "land" -> land(P)
      [] name = "equality" -> equality(P)
      [] name = "comparision" -> comparision(P)
      [] name = "range" -> range(P)
      [] name = "addition" -> addition(P)
      [] name = "product" -> product(P)
      [] name = "unary" -> unary(P)
      [] name = "exponentiation" -> exponentiation(P)
      [] name = "index_or_call" -> index_or_call(P)
      [] name = "primary" -> primary(P)
      [] name = "list" -> list(P)
      [] name = "block" -> block(P)
      [] name = "statement" -> statement(P)
      [] name = "exprstmt" -> exprstmt(P)
      [] name = "returnstmt" -> returnstmt(P)
      [] name = "fndefn" -> fndefn(P)
      [] name = "breakstmt" -> breakstmt(P)
      [] name = "contstmt" -> contstmt(P)
      [] name = "whilestmt" -> whilestmt(P)
      [] name = "forstmt" -> forstmt(P)
      [] name = "ifstmt" -> ifstmt(P)

\* one turn of the loop of Parser::parse.  The static_pointer_cast at line
\* 17 does not test the class of the statement: when the statement is not an
\* Expression, a->m_expr reads a member of an object of another class, which
\* is undefined; the outcomes are a crash or one of the pointers that object
\* holds, returned as the expression.
ParseStatement ==
    /\ parser.result = "none" /\ ~isAtEndOfTokens(parser)
    /\ \E S \in {statement(parser)} :
        \E P \in {[S EXCEPT !.statements = Append(@, S.node)]} :
            IF P.m_foundExpr /\ P.node # Null
            THEN IF P.node.k = "Expression"
                 THEN parser' = [P EXCEPT !.result = "expression", !.expr = P.node.expr]
                 ELSE \/ parser' = [P EXCEPT !.result = "crash"]
                      \/ \E member \in DOMAIN P.node \ {"k"} :
                            parser' = [P EXCEPT !.result = "expression",
                                                !.expr = P.node[member]]
            ELSE parser' = [P EXCEPT !.m_allowExpr = FALSE]
    /\ UNCHANGED <<envs, m_env, heap, m_val, hadRuntimeError, run, lexer, rangeEval>>

\* return statements; at the end of Parser::parse
ParseEnd ==
    /\ parser.result = "none" /\ isAtEndOfTokens(parser)
    /\ parser' = [parser EXCEPT !.result = "statements"]
    /\ UNCHANGED <<envs, m_env, heap, m_val, hadRuntimeError, run, lexer, rangeEval>>

NextParser == ParseStatement \/ ParseEnd

(***************************************************************************)
(* Token vectors, written as sequences of words: a word is a token type,   *)
(* or the lexeme of an identifier or of a number.                          *)
(***************************************************************************)
MaxTokens == 3   \* tokens of a vector drawn from all the words
MaxLoops == 2    \* statements nested in one another
MaxSkipped == 2  \* tokens between a parse error and the statement after it

Identifiers == {"x", "y"}

\* the token of a word
TokenOf(word) ==
    IF word \in Identifiers THEN Tok("IDENTIFIER", word, "NONE")
    ELSE IF word = "1" THEN Tok("NUMBER", word, "NUMBER")
    ELSE Tok(word, word, "NONE")

\* the vector that scanTokens hands to the Parser
TokensOf(words) == [i \in 1..Len(words) + 1 |->
                       IF i <= Len(words) THEN TokenOf(words[i]) ELSE EOFToken]

\* every short vector over these words
Words == {"x", "SEMICOLON", "RPAREN", "IF", "WHILE", "BREAK", "EQUAL", "LBRACE", "RBRACE"}

\* statements that hold no other statement
Leaves ==
    {<<"x">>, <<"x", "SEMICOLON">>, <<"x", "PLUS", "SEMICOLON">>,
     <<"BREAK", "SEMICOLON">>, <<"CONTINUE", "SEMICOLON">>, <<"BREAK", "x", "SEMICOLON">>}

\* a statement around the statement s
Around(s) ==
    {<<"IF", "LPAREN", "x", "RPAREN">> \o s,
     <<"IF", "LPAREN", "x", "RPAREN">> \o s \o <<"ELSE">> \o s,
     <<"WHILE", "LPAREN", "x", "RPAREN">> \o s,
     <<"FOR", "LPAREN", "SEMICOLON", "SEMICOLON", "RPAREN">> \o s,
     <<"FOR", "LPAREN", "x", "IN", "y", "RPAREN">> \o s,
     <<"LBRACE">> \o s \o <<"RBRACE">>,
     <<"LBRACE">> \o s,
     <<"FUNCTION", "y", "LPAREN", "RPAREN", "LBRACE">> \o s \o <<"RBRACE">>}

RECURSIVE NestedStatements(_)
NestedStatements(depth) ==
    IF depth = 0 THEN Leaves
    ELSE Leaves \cup UNION {Around(s) : s \in NestedStatements(depth - 1)}

\* what follows the first statement
Tails == {<<>>, <<"BREAK", "SEMICOLON">>, <<"x">>}

\* an assignment: target, operator, value, and the ';' or none
AssignTargets ==
    {<<"x">>, <<"1">>, <<"x", "LSQRBRKT", "1", "RSQRBRKT">>, <<"LPAREN", "x", "RPAREN">>,
     <<"x", "PLUS", "1">>, <<"MINUS", "x">>}
CompoundOps == {"PLUS_EQUAL", "MINUS_EQUAL", "PROD_EQUAL", "DIV_EQUAL"}
AssignOps == CompoundOps \cup {"EQUAL", "BT_EQUAL"}
AssignedValues ==
    {<<"1">>, <<"y">>, <<"y", "PLUS", "1">>, <<"y", "PROD_EQUAL", "1">>,
     <<"y", "EQUAL", "1">>, <<"1", "PLUS_EQUAL", "y">>, <<>>}
Assignments ==
    {target \o <<op>> \o val \o end :
        target \in AssignTargets, op \in AssignOps, val \in AssignedValues,
        end \in {<<>>, <<"SEMICOLON">>}}

\* a statement that throws a ParseError at its second token, or at its
\* first, the tokens that follow the erroneous one, and a statement after
\* them
Broken == {<<"x">>, <<"RETURN">>, <<"LBRACE", "x", "SEMICOLON", "RPAREN">>, <<>>}
Erroneous == {"RPAREN", "IF", "WHILE", "FOR", "FUNCTION", "RETURN", "CLASS"}
Skipped == {"y", "SEMICOLON", "RBRACE", "BREAK", "IF", "WHILE", "FOR", "FUNCTION", "RETURN",
            "CLASS"}
Recoveries ==
    {start \o <<token>> \o skipped \o <<"x", "SEMICOLON">> :
        start \in Broken, token \in Erroneous, skipped \in SourcesOver(Skipped, MaxSkipped)}

\* statements that end where their body, or their else branch, would start
Truncated ==
    {start \o head :
        start \in {<<>>, <<"RPAREN">>, <<"x", "SEMICOLON">>},
        head \in {<<"IF", "LPAREN", "x", "RPAREN">>, <<"WHILE", "LPAREN", "x", "RPAREN">>,
                  <<"FOR", "LPAREN", "SEMICOLON", "SEMICOLON", "RPAREN">>,
                  <<"IF", "LPAREN", "x", "RPAREN", "x", "SEMICOLON", "ELSE">>}}

ParserSources ==
    SourcesOver(Words, MaxTokens)
    \cup Recoveries
    \cup Truncated
    \cup {s \o t : s \in NestedStatements(MaxLoops), t \in Tails}
    \cup Assignments

InitParser ==
    /\ Idle
    /\ lexer = NoLexer
    /\ parser \in {NewParser(TokensOf(words), parseRepl) :
                      words \in ParserSources, parseRepl \in BOOLEAN}

SpecParser == InitParser /\ [][NextParser]_vars

\* parse() is a loop that runs until it returns: weak fairness of
\* NextParser, which is enabled exactly while parse() has not returned
\* and changes parser at every step
SpecParse ==
    /\ InitParser
    /\ [][NextParser]_vars
    /\ ([]<>(parser.result # "none") \/ []<><<NextParser>>_vars)

(***************************************************************************)
(* Entries `x = T; x[I] = (y = R);`: the right-hand side is an assignment, *)
(* so that the record of the run tells whether it was evaluated.  The      *)
(* index I is a literal or, with self set, the variable x: the list that   *)
(* is indexed is then the list of indices too (list_ptr is shared).        *)
(***************************************************************************)
WriteTargets ==
    Targets \cup {ListOf(<<Num(2 * Unit), Num(Unit)>>), ListOf(<<Num(Unit), Num(Unit)>>)}

WriteEntries ==
    {[fam |-> "write", target |-> T, index |-> I, self |-> FALSE, val |-> R, ub |-> ub] :
        T \in WriteTargets, I \in IndexLists \cup ScalarIndices,
        R \in ScalarVals \cup ListVals, ub \in BOOLEAN}
      \cup
    {[fam |-> "write", target |-> T, index |-> None, self |-> TRUE, val |-> R, ub |-> ub] :
        T \in WriteTargets, R \in ScalarVals \cup ListVals, ub \in BOOLEAN}

InitWrite ==
    /\ envs = <<EmptySlots>>
    /\ m_env = m_global
    /\ heap = <<>>
    /\ m_val = Nix
    /\ hadRuntimeError = FALSE
    /\ lexer = NoLexer
    /\ parser = NoParser
    /\ rangeEval = NoRange
    /\ run \in {PendingRun(entry) : entry \in WriteEntries}

\* x = T; x[I] = (y = R);
RunWrite ==
    /\ Pending("write")
    /\ LET e == run.entry
           value == Assign("y", "EQUAL", NoDepth, ToExpr(e.val))
           prog == <<SetUp(e.target),
                     Expression(IndexAssign(TheX, IF e.self THEN TheX ELSE ToExpr(e.index),
                                            value))>>
           res == interpret(prog, Start(e.ub))
       IN  Finish(e, res, Snap(ExecStmts(<<prog[1]>>, 1, Start(e.ub)), res))

NextWrite == RunWrite

SpecWrite == InitWrite /\ [][NextWrite]_vars

(***************************************************************************)
(* visit(const RangeExpr&) step by step, after its operands evaluated to   *)
(* numbers: the check of the step, every turn of the loop, the return.     *)
(***************************************************************************)
MaxPushed == 8   \* values a range loop pushes before it is not followed further

\* if (isEqual(step, 0)) throw RuntimeError(..); and the head of the for
\* loop: i = first; step is 1 when the expression has none
RangeChecks ==
    /\ rangeEval.at = "checks"
    /\ rangeEval' =
          IF rangeEval.hasStep /\ isEqualNum(rangeEval.step, 0)
          THEN [rangeEval EXCEPT !.at = "thrown"]
          ELSE [rangeEval EXCEPT !.at = "loop", !.i = rangeEval.first,
                                 !.step = IF rangeEval.hasStep THEN @ ELSE Unit]
    /\ UNCHANGED <<envs, m_env, heap, m_val, hadRuntimeError, run, lexer, parser>>

\* one turn of the loop: i <= end; rangeList.push_back(i); i += step
RangePush ==
    /\ rangeEval.at = "loop"
    /\ rangeEval.i <= rangeEval.end
    /\ Len(rangeEval.rangeList) < MaxPushed
    /\ rangeEval' = [rangeEval EXCEPT !.rangeList = Append(@, rangeEval.i),
                                      !.i = @ + rangeEval.step]
    /\ UNCHANGED <<envs, m_env, heap, m_val, hadRuntimeError, run, lexer, parser>>

\* the end of the loop, !(i <= end), and m_val = the list
RangeExit ==
    /\ rangeEval.at = "loop"
    /\ ~(rangeEval.i <= rangeEval.end)
    /\ rangeEval' = [rangeEval EXCEPT !.at = "done"]
    /\ UNCHANGED <<envs, m_env, heap, m_val, hadRuntimeError, run, lexer, parser>>

NextRange == RangeChecks \/ RangePush \/ RangeExit

\* the numbers of the operands, in ticks: whole and broken, negative and
\* zero; the steps include those that are epsilon-zero
RangeBounds == {-Unit, 0, 1, Unit, 2 * Unit}
StepsOfRange == {-Unit, -epsilon, -1, 0, 1, epsilon, Unit}

InitRange ==
    /\ envs = <<EmptySlots>> /\ m_env = m_global /\ heap = <<>> /\ m_val = Nix
    /\ hadRuntimeError = FALSE /\ run = PendingRun([fam |-> "source"])
    /\ lexer = NoLexer
    /\ parser = NoParser
    /\ rangeEval \in {NewRange(first, TRUE, step, end) :
                         first \in RangeBounds, step \in StepsOfRange, end \in RangeBounds}
                     \cup {NewRange(first, FALSE, 0, end) :
                              first \in RangeBounds, end \in RangeBounds}

\* the visit runs on until it returns or throws
SpecRange == InitRange /\ [][NextRange]_vars /\ WF_vars(NextRange)

(***************************************************************************)
(* The claims.                                                             *)
(***************************************************************************)

\* C1: whenever a loop (while, for, ranged for) catches a break or continue
\* raised in its body, at any depth of nested blocks or if-branches, m_env is
\* the environment that was current when that body iteration began; so a run
\* of a loop that ends normally leaves m_env where it was.
C1_JumpRestoresEnv ==
    /\ \A i \in DOMAIN run.catches : run.catches[i].now = run.catches[i].began
    /\ (run.entry.fam = "loop" /\ run.outcome = "ok") => m_env = run.m_envBefore

\* C2: a RuntimeError that unwinds out of a frame that installed a scope
\* (block, for, ranged for) finds m_env restored to its value before the
\* frame; whenever interpret() reports a runtime error, m_env is the root.
C2_ErrorRestoresEnv ==
    /\ \A i \in DOMAIN run.unwinds : run.unwinds[i].now = run.unwinds[i].before
    /\ run.topReports > 0 => m_env = m_global

\* C3: a RuntimeError raised anywhere in a top-level statement is caught at
\* the top of interpret() and nowhere else, and nothing is evaluated after
\* the failing expression in that interpret() call.
C3_ErrorAbortsStatement ==
    /\ run.raised => (run.outcome = "caught" /\ run.topReports = 1 /\ run.blockReports = 0)
    /\ ~run.after

\* what an entry's list expression denotes: the first element's alternative
\* is the type tag, [] has the tag of the empty list, 1..0 is a numList
Denote(c) ==
    [m_type |-> IF c.kind = "range0" THEN "num"
                ELSE IF c.vals = <<>> THEN "empty" ELSE c.vals[1].t,
     m_list |-> c.vals]

\* the list x was bound to before the indexing, and that list afterwards
ListBefore == run.snap.heap[run.snap.x.v]
ListAfter == run.snap.heapAfter[run.snap.x.v]

\* v is an integer index into a list of n elements
ValidIndex(v, n) == v.t = "num" /\ v.v % Unit = 0 /\ 1 <= v.v \div Unit /\ v.v \div Unit <= n

ScalarIndexed ==
    run.entry.index.kind = "lit" /\ ValidIndex(run.entry.index.vals[1], Len(ListBefore.m_list))

ListIndexed ==
    /\ run.entry.index.kind \in {"list", "range0"}
    /\ \A k \in DOMAIN run.entry.index.vals :
          ValidIndex(run.entry.index.vals[k], Len(ListBefore.m_list))

\* the 1-based position the k-th index of the entry names
At(k) == run.entry.index.vals[k].v \div Unit

\* C4: after any run of list literals, ranges, gathers, scalar index
\* assignments and scatter assignments that raised no error, every list is
\* homogeneous: all its elements hold the alternative its type tag names, and
\* a list tagged empty has no element.
C4_Homogeneous ==
    run.outcome = "ok" =>
        \A r \in DOMAIN heap :
            \A k \in DOMAIN heap[r].m_list : heap[r].m_list[k].t = heap[r].m_type

\* C5: L[i] = v with a valid index i succeeds exactly when the alternative of
\* v is the one L's type tag names, for every length of L, one included, and
\* then replaces element i alone; otherwise it raises a type-mismatch runtime
\* error and L is as before.
C5_ScalarIndexAssign ==
    (run.entry.fam = "indexAssign" /\ run.outcome # "pending" /\ ScalarIndexed) =>
        LET value == IF run.entry.val.kind = "lit" THEN run.entry.val.vals[1]
                     ELSE run.result
        IN  IF value.t = ListBefore.m_type
            THEN /\ run.outcome = "ok"
                 /\ ListAfter = [ListBefore EXCEPT !.m_list[At(1)] = value]
            ELSE /\ run.outcome = "caught"
                 /\ ListAfter = ListBefore

\* C6: L[I] = R with a list I of valid indices succeeds exactly when R is a
\* list whose type tag is L's and whose length is |I|, and then stores R[k]
\* at position I[k] of L, left to right; otherwise it raises a runtime error
\* and L is as before.
C6_ScatterAssign ==
    (run.entry.fam = "indexAssign" /\ run.outcome # "pending" /\ ListIndexed) =>
        LET I == run.entry.index.vals
            R == Denote(run.entry.val)
            last(j) == CHOOSE k \in DOMAIN I : At(k) = j /\ \A h \in DOMAIN I : At(h) = j => h <= k
        IN  IF /\ run.entry.val.kind # "lit"
               /\ R.m_type = ListBefore.m_type
               /\ Len(R.m_list) = Len(I)
            THEN /\ run.outcome = "ok"
                 /\ ListAfter =
                      [ListBefore EXCEPT !.m_list =
                          [j \in DOMAIN ListBefore.m_list |->
                              IF \E k \in DOMAIN I : At(k) = j THEN R.m_list[last(j)]
                              ELSE ListBefore.m_list[j]]]
            ELSE /\ run.outcome = "caught"
                 /\ ListAfter = ListBefore

\* C7: L[i] with an integer index 1 <= i <= |L| is the i-th element counted
\* from 1; L[I] with a list I of such indices is a new list with L's type tag
\* whose k-th element is L[I[k]], for every order and repetition of the
\* indices and for an empty I; no list that existed before is modified.
C7_IndexRead ==
    (run.entry.fam = "index" /\ run.outcome # "pending") =>
        /\ ScalarIndexed =>
              /\ run.outcome = "ok"
              /\ run.result = ListBefore.m_list[At(1)]
              /\ run.snap.heapAfter = run.snap.heap
        /\ ListIndexed =>
              /\ run.outcome = "ok"
              /\ run.result.t = "list"
              /\ run.result.v \notin DOMAIN run.snap.heap
              /\ run.snap.heapAfter[run.result.v] =
                    [m_type |-> ListBefore.m_type,
                     m_list |-> [k \in DOMAIN run.entry.index.vals |-> ListBefore.m_list[At(k)]]]
              /\ \A r \in DOMAIN run.snap.heap : run.snap.heapAfter[r] = run.snap.heap[r]

\* ["a", "b"][[2, 1]]: a new list of strings, the two elements swapped
C7_Witness ==
    /\ run.entry.fam = "index" /\ run.outcome = "ok"
    /\ run.entry.index = ListOf(<<Num(2 * Unit), Num(Unit)>>)
    /\ ListBefore = [m_type |-> "str", m_list |-> <<Str(1), Str(2)>>]
    /\ run.result.t = "list"
    /\ run.snap.heapAfter[run.result.v] = [m_type |-> "str", m_list |-> <<Str(2), Str(1)>>]
    /\ ListAfter = ListBefore

\* the scope an Assign node is to write to, by the resolver's depth map
TargetScope(a) == IF a.depth = NoDepth THEN m_global ELSE a.at - a.depth

\* C8: an Assign node the resolver gave depth d writes at exactly the d-th
\* ancestor of the current environment, one it gave none writes to the root;
\* lazy '=' creates or overwrites the binding; strict '`=' raises a runtime
\* error when the name has no binding in that scope, and then no environment
\* has changed.
C8_AssignDiscipline ==
    \A i \in DOMAIN run.assigns :
        LET a == run.assigns[i]
        IN  IF a.op = "BT_EQUAL" /\ a.before[TargetScope(a)][a.name] = Unbound
            THEN a.threw /\ a.after = a.before
            ELSE /\ ~a.threw
                 /\ a.after = [a.before EXCEPT ![TargetScope(a)][a.name] = a.val]

\* a strict assignment that wrote to a scope between the current one and the root
C8_Witness ==
    \E i \in DOMAIN run.assigns :
        LET a == run.assigns[i]
        IN  /\ a.op = "BT_EQUAL" /\ ~a.threw /\ a.depth = 1 /\ a.at = 3
            /\ a.after # a.before
            /\ run.entry.name = "x" /\ envs[m_global]["x"] = Unbound

\* C9: a..s..b with numbers a, b and a positive step s that is not within
\* epsilon of 0 (1 when the step is left out) is the numList a, a+s, a+2s, ...
\* of the values not above b, b included when it is reached, empty when a > b;
\* a non-numeric a, s or b, or a step within epsilon of 0, raises a runtime
\* error and x stays unbound.
C9_Range ==
    (run.entry.fam = "range" /\ run.outcome # "pending") =>
        LET a == run.entry.target.vals[1]
            b == run.entry.to.vals[1]
            hasStep == run.entry.index.kind = "lit"
            s == IF hasStep THEN run.entry.index.vals[1] ELSE Num(Unit)
            n == IF a.v > b.v THEN 0 ELSE (b.v - a.v) \div s.v + 1
        IN  IF a.t # "num" \/ s.t # "num" \/ b.t # "num"
               \/ (-epsilon < s.v /\ s.v < epsilon)
            THEN run.outcome = "caught" /\ envs[m_global]["x"] = Unbound
            ELSE s.v > 0 =>
                    /\ run.outcome = "ok"
                    /\ run.result.t = "list"
                    /\ envs[m_global]["x"].t = "list"
                    /\ heap[envs[m_global]["x"].v] = run.snap.heapAfter[run.result.v]
                    /\ run.snap.heapAfter[run.result.v] =
                          [m_type |-> "num",
                           m_list |-> [k \in 1..n |-> Num(a.v + (k - 1) * s.v)]]

\* a range whose step does not land on its end: the last element is the
\* largest a + k*s below the end
C9_Witness ==
    /\ run.entry.fam = "range" /\ run.outcome = "ok"
    /\ run.entry.target = Lit(Num(1)) /\ run.entry.index = Lit(Num(epsilon))
    /\ run.entry.to = Lit(Num(MaxTick))
    /\ heap[envs[m_global]["x"].v].m_list = <<Num(1), Num(3), Num(5)>>

\* truthiness as the language defines it: nix, false and a number within
\* epsilon of 0 are falsy, everything else is truthy
Falsy(val) ==
    \/ val = Nix
    \/ val = Bool(FALSE)
    \/ val.t = "num" /\ -epsilon < val.v /\ val.v < epsilon

\* C10: `l or r` evaluates r only when l is falsy, `l and r` only when l is
\* truthy, so that r's side effect (here x = r) happens exactly then; the
\* result is the bool true or false, never an operand.
C10_LogicalShortCircuit ==
    run.entry.fam = "logical" =>
        LET lFalsy == run.entry.left.k = "Literal" /\ Falsy(run.entry.left.val)
            rFalsy == Falsy(run.entry.right)
            needsRight == IF run.entry.op = "OR" THEN lFalsy ELSE ~lFalsy
        IN  /\ run.outcome = "ok"
            /\ run.rhs = IF needsRight THEN 1 ELSE 0
            /\ envs[m_global]["x"] = IF needsRight THEN run.entry.right ELSE run.snap
            /\ run.result = IF run.entry.op = "OR" THEN Bool(~lFalsy \/ ~rFalsy)
                            ELSE Bool(~lFalsy /\ ~rFalsy)

\* `l or "a"` with a number l within epsilon of 0: the right operand ran and
\* the result is true, not the string
C10_Witness ==
    /\ run.entry.fam = "logical" /\ run.entry.op = "OR"
    /\ run.entry.left = Literal(Num(1)) /\ run.entry.right = Str(1)
    /\ run.rhs = 1 /\ run.result = Bool(TRUE) /\ envs[m_global]["x"] = Str(1)

\* the value the callee of a call entry evaluates to
CalleeValue ==
    CASE run.entry.callee = "fn0" -> Callable(0)
      [] run.entry.callee = "fn1" -> Callable(1)
      [] run.entry.callee = "fn2" -> Callable(2)
      [] run.entry.callee = "num" -> Num(Unit)
      [] run.entry.callee = "str" -> Str(1)
      [] run.entry.callee = "nix" -> Nix

\* the run of a call entry evaluated the callee, then the arguments 1..n
EvaluatedUpTo(n) ==
    /\ Len(run.assigns) >= n + 1
    /\ run.assigns[1].name = "x" /\ run.assigns[1].val = CalleeValue
    /\ \A i \in 1..n : run.assigns[i + 1].name = "y"
                         /\ run.assigns[i + 1].val = Num(i * Unit)

\* C11: a call evaluates the callee first, then every argument exactly once
\* from left to right; then it raises a runtime error if the callee's value is
\* no callable or if the number of arguments is not the callable's arity, and
\* the callable is invoked (its body runs, once) only when both checks pass.
\* An argument that raises ends the call before the later arguments.
C11_CallOrder ==
    (run.entry.fam = "call" /\ run.outcome # "pending") =>
        LET n == run.entry.nargs
            passes == isCallable(CalleeValue) /\ CalleeValue.v = n
        IN  IF run.entry.errAt > 0
            THEN /\ EvaluatedUpTo(run.entry.errAt - 1)
                 /\ Len(run.assigns) = run.entry.errAt
                 /\ run.outcome = "caught"
            ELSE /\ EvaluatedUpTo(n)
                 /\ IF passes
                    THEN /\ Len(run.assigns) = n + 2
                         /\ run.assigns[n + 2].val = Str(2)
                         /\ run.outcome = "ok" /\ run.result = Nix
                         /\ ~hadRuntimeError
                    ELSE /\ Len(run.assigns) = n + 1
                         /\ run.outcome = "caught" /\ run.topReports = 1
                         /\ hadRuntimeError

\* a call of a number with two arguments: both were evaluated, in order,
\* before the error
C11_Witness ==
    /\ run.entry.fam = "call" /\ run.entry.callee = "num" /\ run.entry.nargs = 2
    /\ run.entry.errAt = 0 /\ run.outcome = "caught"
    /\ Len(run.assigns) = 3
    /\ run.assigns[2].val = Num(Unit) /\ run.assigns[3].val = Num(2 * Unit)
    /\ envs[m_global]["y"] = Num(2 * Unit)

\* which clause of a for entry an Assign record comes from
Clause(a) ==
    IF a.name = "x" THEN (IF a.val = Num(0) THEN "init" ELSE "incr")
    ELSE IF isNum(a.val) THEN "cond"
    ELSE IF a.val = Str(1) THEN "body" ELSE "skipped"

\* the clauses a for entry is to run from the condition on, in order, when x
\* is i units and n iterations are done; a run is followed for MaxIter
\* iterations
RECURSIVE Rounds(_, _, _)
Rounds(e, i, n) ==
    (IF e.cond = -1 THEN <<>> ELSE <<"cond">>)
      \o (IF e.cond # -1 /\ ~(i < e.cond) THEN <<>>
          ELSE IF n >= MaxIter THEN <<>>
          ELSE <<"body">>
                 \o (IF e.leaf = "break" THEN <<>>
                     ELSE (IF e.incr THEN <<"incr">> ELSE <<>>)
                            \o Rounds(e, IF e.incr THEN i + 1 ELSE i, n + 1)))

\* the scope created for the head of the loop of a for entry
HeadScope == run.m_envBefore + 1

\* C12: in a C-style for loop the init runs once, then the condition; after
\* every body execution that ends normally or by continue the increment is
\* evaluated once and then the condition again; after a break neither is
\* evaluated again; a condition left out behaves as true; init, condition,
\* increment and the statements of a block body all run in the one scope
\* created for the loop head.
C12_ForLoop ==
    (run.entry.fam = "for" /\ run.outcome # "pending") =>
        /\ [i \in DOMAIN run.assigns |-> Clause(run.assigns[i])]
             = (IF run.entry.init THEN <<"init">> ELSE <<>>) \o Rounds(run.entry, 0, 0)
        /\ \A i \in DOMAIN run.assigns :
               run.assigns[i].at =
                   IF Clause(run.assigns[i]) = "body" /\ run.entry.body = "nested"
                   THEN HeadScope + 1 ELSE HeadScope
        /\ run.outcome \in {"ok", "fuel"}
        /\ run.outcome = "ok" => m_env = run.m_envBefore

\* the number of elements a ranged-for entry is to visit
Visits(e) == IF e.leaf = "break" /\ e.len > 0 THEN 1 ELSE e.len

\* C13: a ranged for evaluates its iterable once (a runtime error if it is
\* no list), then visits the elements in list order from the first to the
\* last; before each body execution it assigns the bound name, in the scope
\* created for the loop head and in no other, to the current element;
\* continue proceeds to the next element and break ends the loop without
\* visiting the remaining elements.
C13_RangedFor ==
    (run.entry.fam = "rangedFor" /\ run.outcome # "pending") =>
        LET e == run.entry
            recs == run.assigns
        IN  IF e.len = -1
            THEN Len(recs) = 1 /\ run.outcome = "caught"
            ELSE /\ Len(recs) = 1 + Visits(e)
                 /\ isList(recs[1].val)
                 /\ run.outcome = "ok"
                 /\ m_env = run.m_envBefore
                 /\ \A i \in 1..Visits(e) :
                        LET b == recs[i + 1]
                        IN  /\ b.val = Elem(e, i)
                            /\ b.at = IF e.body = "nested" THEN HeadScope + 1 ELSE HeadScope
                            /\ Len(b.before) = b.at
                            /\ b.before[HeadScope]["x"] = Elem(e, i)
                            /\ \A j \in DOMAIN b.before :
                                   j > HeadScope => b.before[j]["x"] = Unbound

\* the tokens end with an EOF token and hold no other
EndsInOneEOF(tokens) ==
    /\ Len(tokens) > 0
    /\ \A i \in DOMAIN tokens : tokens[i].type = "EOF_" <=> i = Len(tokens)

\* C14: for every source string scanTokens terminates, each call of scanToken
\* consuming at least one character and none reading past the end, and it
\* returns a token vector whose last token is EOF and which holds no other
\* EOF token, also when lex errors (unterminated string, unexpected
\* character, stray backtick) were reported on the way.
C14_ScanTerminates ==
    /\ [][lexer'.done \/ lexer'.m_current > lexer.m_current]_lexer
    /\ [](lexer.m_current <= Len(lexer.m_src))
    /\ [](IF lexer.done THEN EndsInOneEOF(lexer.m_tokens)
          ELSE \A i \in DOMAIN lexer.m_tokens : lexer.m_tokens[i].type # "EOF_")
    /\ <>lexer.done

\* a source of a stray backtick, an unexpected character and an unterminated
\* string was read to its end
C14_Witness ==
    /\ lexer.m_src = <<Backtick, "#", Quote>>
    /\ lexer.done /\ Len(lexer.errors) = 3
    /\ Len(lexer.m_tokens) = 1 /\ lexer.m_tokens[1].type = "EOF_"

\* the lexer has made its first call of scanToken on a source that begins
\* with the characters `opener`
FirstTokenAfter(opener) ==
    /\ lexer.steps = <<0>> /\ ~lexer.done
    /\ Len(lexer.m_src) >= Len(opener)
    /\ SubSeq(lexer.m_src, 1, Len(opener)) = opener

\* the places (the index of ']', counting from 1) of "]/" after the opener
Closers(src) == {p \in 3..(Len(src) - 1) : src[p] = "]" /\ src[p + 1] = "/"}

Least(set) == CHOOSE p \in set : \A q \in set : p <= q

\* C17: a multi-line comment opened by "/[" ends at the first occurrence of
\* the two characters "]/" after the opener, for every source text (also
\* where a ']' stands right before that "]/"); scanning resumes with the
\* character right after it, and every '\n' inside the comment advances the
\* line counter by one.
C17_CommentEnds ==
    (FirstTokenAfter(<<"/", "[">>) /\ Closers(lexer.m_src) # {}) =>
        LET p == Least(Closers(lexer.m_src))
        IN  /\ lexer.m_current = p + 1
            /\ lexer.m_line = 1 + Cardinality({i \in 3..(p - 1) : lexer.m_src[i] = Newline})
            /\ lexer.m_tokens = <<>> /\ lexer.errors = <<>>

\* the number of consecutive backslashes right before place q of a string
\* literal whose opening quote is at place 1
RECURSIVE BackslashesBefore(_, _)
BackslashesBefore(src, q) ==
    IF q > 2 /\ src[q - 1] = Backslash THEN 1 + BackslashesBefore(src, q - 1) ELSE 0

\* the places of the quotes that are not escaped
ClosingQuotes(src) ==
    {q \in 2..Len(src) : src[q] = Quote /\ BackslashesBefore(src, q) % 2 = 0}

\* the text with every escape sequence replaced, read from left to right
RECURSIVE Unescaped(_)
Unescaped(text) ==
    IF text = <<>> THEN <<>>
    ELSE IF text[1] = Backslash /\ Len(text) > 1 /\ text[2] \in {"n", "t", Quote, Backslash}
         THEN <<Escaped(text[2])>> \o Unescaped(SubSeq(text, 3, Len(text)))
         ELSE <<text[1]>> \o Unescaped(SubSeq(text, 2, Len(text)))

\* C18: a string literal ends at the first '"' that is not escaped (a quote
\* after an odd number of consecutive backslashes is escaped, after an even
\* number it is not), and the STRING token's lexeme is the text between the
\* quotes with every escape sequence \n, \t, \" and \\ replaced by its
\* character, from left to right, so that a character that a substitution
\* produced is never read as the start of another escape.
C18_StringLiteral ==
    (FirstTokenAfter(<<Quote>>) /\ ClosingQuotes(lexer.m_src) # {}) =>
        LET q == Least(ClosingQuotes(lexer.m_src))
        IN  /\ lexer.m_current = q
            /\ lexer.errors = <<>>
            /\ Len(lexer.m_tokens) = 1
            /\ lexer.m_tokens[1].type = "STRING"
            /\ lexer.m_tokens[1].lexeme = Unescaped(SubSeq(lexer.m_src, 2, q - 1))

\* the lexeme is a number of the grammar from place i on, where the part
\* before was read up to `part`: "int", "frac" or "exp"
RECURSIVE NumberFrom(_, _, _, _)
NumberFrom(lexeme, i, part, digits) ==
    IF i > Len(lexeme) THEN digits > 0
    ELSE IF isDigit(lexeme[i]) THEN NumberFrom(lexeme, i + 1, part, digits + 1)
    ELSE IF lexeme[i] = "." THEN part = "int" /\ NumberFrom(lexeme, i + 1, "frac", 0)
    ELSE IF lexeme[i] = "e"
         THEN /\ part \in {"int", "frac"} /\ digits > 0
              /\ IF i < Len(lexeme) /\ lexeme[i + 1] \in {"+", "-"}
                 THEN NumberFrom(lexeme, i + 2, "exp", 0)
                 ELSE NumberFrom(lexeme, i + 1, "exp", 0)
    ELSE FALSE

\* C19: the lexeme of every NUMBER token matches the number grammar: digits
\* with an optional fraction of '.' and digits and an optional exponent of
\* 'e', an optional sign and at least one digit; or a leading '.' followed by
\* digits and the optional exponent.  So an 'e' is part of the number only
\* when a whole exponent follows, and a number holds at most one '.'.
C19_NumberGrammar ==
    \A i \in DOMAIN lexer.m_tokens :
        lexer.m_tokens[i].type = "NUMBER" =>
            NumberFrom(lexer.m_tokens[i].lexeme, 1, "int", 0)


(***************************************************************************)
(* The Parser.                                                             *)
(***************************************************************************)
\* the whole token vector is one expression: the production expression
\* reads it up to the EOF token without a ParseError
OneExpression(tokens) ==
    /\ Len(tokens) > 1
    /\ \E E \in {expression(NewParser(tokens, FALSE))} : E.sig = "ok" /\ isAtEndOfTokens(E)

\* C15: with parseRepl set, parse() returns a single expression exactly
\* when the whole token vector is one expression with no terminating ';',
\* and a statement list for every other input; an expression is returned
\* only when the last parsed statement is the expression statement that
\* holds it.
C15_ReplExpression ==
    (parser.parseRepl /\ parser.result # "none") =>
        /\ parser.result = IF OneExpression(parser.m_tokens) THEN "expression"
                           ELSE "statements"
        /\ parser.result = "expression" =>
              \E last \in {parser.statements[Len(parser.statements)]} :
                  last.k = "Expression" /\ parser.expr = last.expr


\* the tokens of a statement without its EOF token and its closing ';'
Unterminated(tokens) ==
    IF Len(tokens) > 1 /\ tokens[Len(tokens) - 1].type = "SEMICOLON"
    THEN SubSeq(tokens, 1, Len(tokens) - 2)
    ELSE SubSeq(tokens, 1, Len(tokens) - 1)

\* the statement is closed: by a ';', or by the end of a REPL buffer
Closed(P) == P.parseRepl \/ Len(Unterminated(P.m_tokens)) = Len(P.m_tokens) - 2

\* tokens is 'a op= e', a an identifier and e one expression
CompoundAssignment(tokens) ==
    /\ Len(Unterminated(tokens)) >= 3
    /\ tokens[1].type = "IDENTIFIER"
    /\ tokens[2].type \in CompoundOps
    /\ OneExpression(Append(SubSeq(Unterminated(tokens), 3, Len(Unterminated(tokens))),
                            EOFToken))

\* the tree of e in 'a op= e'
ValueTree(tokens) ==
    expression(NewParser(Append(SubSeq(Unterminated(tokens), 3, Len(Unterminated(tokens))),
                                EOFToken), FALSE)).node

\* the binary operator of a compound assignment
OperatorOf(type) ==
    CASE type = "PLUS_EQUAL" -> "PLUS"
      [] type = "MINUS_EQUAL" -> "MINUS"
      [] type = "PROD_EQUAL" -> "PRODUCT"
      [] type = "DIV_EQUAL" -> "DIVISON"

\* the tokens of 'a `= a op e;' for the tokens of 'a op= e', e one token
StrictForm(tokens) ==
    <<tokens[1], Tok("BT_EQUAL", "BT_EQUAL", "NONE"), tokens[1],
      Tok(OperatorOf(tokens[2].type), OperatorOf(tokens[2].type), "NONE"), tokens[3],
      Tok("SEMICOLON", "SEMICOLON", "NONE"), EOFToken>>

\* tokens is 't op e', e an expression, t an expression that is neither an
\* identifier nor an indexed list, and op an assignment operator
InvalidAssignment(tokens) ==
    \E T \in {lor(NewParser(tokens, FALSE))} :
        /\ T.sig = "ok"
        /\ T.node.k \notin {"Variable", "Index"}
        /\ match(T, AssignOps)
        /\ assignment(advanceToken(T)).sig = "ok"

Reported(P, msg) == \E i \in 1..Len(P.errors) : P.errors[i] = msg

\* C16: for an identifier a and op in {+, -, *, /}, 'a op= e' is parsed to
\* the tree of the strict assignment of Binary(Variable a, op, e) to a: an
\* Assign with operator '`=', never the lazy '='; a target that is no valid
\* assignment target is reported as 'Invalid assignment location', which
\* marks the session errored.
C16_CompoundAssignment ==
    Len(parser.statements) >= 1 =>
        /\ (CompoundAssignment(parser.m_tokens) /\ Closed(parser)) =>
              /\ parser.statements[1] =
                    Expression(Assign(parser.m_tokens[1].lexeme, "BT_EQUAL", NoDepth,
                                      Binary(Variable(parser.m_tokens[1].lexeme, NoDepth),
                                             OperatorOf(parser.m_tokens[2].type),
                                             ValueTree(parser.m_tokens))))
              /\ Len(Unterminated(parser.m_tokens)) = 3 =>
                    parser.statements[1] =
                        statement(NewParser(StrictForm(parser.m_tokens), FALSE)).node
        /\ InvalidAssignment(parser.m_tokens) =>
              Reported(parser, "Invalid assignment location.")

\* 'x += y *= 1;' has been parsed to x `= x + (y `= y * 1)
C16_Witness ==
    /\ parser.result = "statements"
    /\ parser.m_tokens = TokensOf(<<"x", "PLUS_EQUAL", "y", "PROD_EQUAL", "1", "SEMICOLON">>)
    /\ CompoundAssignment(parser.m_tokens)
    /\ parser.statements[1].expr.op = "BT_EQUAL"
    /\ parser.statements[1].expr.val.right.val.op = "PRODUCT"
    /\ parser.errors = <<>>


\* the loop bodies that hold the token with this index
BodiesAround(P, index) ==
    {i \in 1..Len(P.loops) : P.loops[i].from < index /\ index <= P.loops[i].to}

\* C20: a break or continue statement is reported exactly when its keyword
\* is in the body of no while, for or ranged-for loop; m_loopDepth is the
\* number of loop bodies being parsed, at every break and continue and at
\* every statement started, and after a loop body it is what it was before
\* it, also for a body that held a parse error; between the statements of
\* parse() it is 0.
C20_LoopDepth ==
    /\ \A i \in 1..Len(parser.jumps) :
          /\ parser.jumps[i].reported <=> BodiesAround(parser, parser.jumps[i].at) = {}
          /\ parser.jumps[i].depth = Cardinality(BodiesAround(parser, parser.jumps[i].at))
    /\ \A i \in 1..Len(parser.calls) :
          parser.calls[i].from < parser.calls[i].to =>
              parser.calls[i].depth =
                  Cardinality(BodiesAround(parser, parser.calls[i].from + 1))
    /\ \A i \in 1..Len(parser.loops) : parser.loops[i].after = parser.loops[i].before
    /\ parser.m_loopDepth = 0

\* a break in a loop inside a loop was not reported, the ';' missing after it
\* made both bodies fail, and the break after the loops was reported
C20_Witness ==
    /\ \E i \in 1..Len(parser.jumps) :
          ~parser.jumps[i].reported /\ parser.jumps[i].depth = 2
    /\ \E i \in 1..Len(parser.loops) : \E j \in 1..Len(parser.jumps) :
          /\ parser.loops[i].failed /\ parser.loops[i].before = 1
          /\ parser.jumps[j].reported /\ parser.jumps[j].at > parser.loops[i].to
    /\ parser.result = "statements"

\* the keywords that start a statement
StatementKeywords == {"IF", "WHILE", "FOR", "FUNCTION", "RETURN", "CLASS"}

\* recovery from an error at the cursor from may stop with the cursor at to
StopsAt(tokens, from, to) ==
    \/ tokens[to + 1].type \in StatementKeywords \cup {"EOF_"}
    \/ to > from /\ tokens[to].type = "SEMICOLON"

\* where recovery from an error at the cursor from stops: the first place
\* it may
RecoveryPoint(tokens, from) ==
    CHOOSE to \in from..Len(tokens) - 1 :
        /\ StopsAt(tokens, from, to)
        /\ \A before \in from..to - 1 : ~StopsAt(tokens, from, before)

\* C21: after a parse error in a statement the tokens from the erroneous
\* one on are discarded until a ';' has just been consumed or the next
\* token is one of if, while, for, fn, return, class or EOF, and the
\* statement call returns with the cursor there; no such keyword is
\* discarded.
C21_SyncRecovery ==
    \A i \in 1..Len(parser.calls) :
        parser.calls[i].failed =>
            /\ parser.calls[i].to = RecoveryPoint(parser.m_tokens, parser.calls[i].thrownAt)
            /\ \A index \in parser.calls[i].thrownAt..parser.calls[i].to - 1 :
                  parser.m_tokens[index + 1].type \notin StatementKeywords

\* C22: the evaluation of a range expression with numeric operands ends:
\* with a RuntimeError when the step is epsilon-zero, and with a finite
\* list for every other step, positive or negative; every turn of its loop
\* brings i nearer to passing end.
C22_RangeTerminates ==
    /\ [][(rangeEval.at = "loop" /\ rangeEval'.at = "loop") =>
             rangeEval'.end - rangeEval'.i < rangeEval.end - rangeEval.i]_rangeEval
    /\ <>(\/ rangeEval.at = "done"
          \/ rangeEval.at = "thrown" /\ rangeEval.hasStep /\ isEqualNum(rangeEval.step, 0))

\* the indices of the entry, as they are when the index is evaluated
IndicesGiven ==
    IF run.entry.self THEN ListBefore
    ELSE IF run.entry.index.kind = "lit"
         THEN [m_type |-> "scalar", m_list |-> run.entry.index.vals]
         ELSE Denote(run.entry.index)

\* a positive integer, by the epsilon test, that is at most size
GoodIndex(val, size) ==
    val.t = "num" /\ \E n \in 1..size : Abs(val.v - n * Unit) < epsilon

\* the index is a number or a list of numbers, each a good index
IndexGood ==
    /\ IndicesGiven.m_type \in {"scalar", "num", "empty"}
    /\ \A k \in DOMAIN IndicesGiven.m_list :
          GoodIndex(IndicesGiven.m_list[k], Len(ListBefore.m_list))

\* the right-hand side y = R was evaluated: y is bound
RightSideEvaluated == envs[m_global]["y"] # Unbound

\* C23: an index assignment is all-or-nothing: one that does not complete
\* leaves every element of the indexed list as it was, and one whose index
\* is invalid raises without evaluating its right-hand side.
C23_AllOrNothing ==
    (run.entry.fam = "write" /\ run.outcome # "pending") =>
        /\ run.outcome # "ok" => ListAfter = ListBefore
        /\ ~IndexGood => (run.outcome = "caught" /\ ~RightSideEvaluated)

\* the cursor at the EOF token
AtEOF == Len(parser.m_tokens) - 1

\* C24: parse() ends for every token vector that ends in EOF; every call of
\* statement() made with the cursor before the EOF token, failed and
\* recovered or not, leaves the cursor further on than it found it, every
\* turn of the loop of parse() does, and the cursor is never past the EOF
\* token.
C24_ParseTerminates ==
    /\ [](\A i \in 1..Len(parser.calls) :
             /\ parser.calls[i].from < AtEOF => parser.calls[i].to > parser.calls[i].from
             /\ parser.calls[i].to <= AtEOF /\ parser.calls[i].thrownAt <= AtEOF)
    /\ [](parser.m_current <= AtEOF)
    /\ [][parser'.m_current > parser.m_current \/ parser'.result # "none"]_parser
    /\ <>(parser.result # "none")

\* parse() returned the statements; one statement() call failed at its first
\* token, which only sync() consumed, one failed at the EOF token and left
\* the cursor there, and one succeeded
C24_Witness ==
    /\ parser.result = "statements"
    /\ \E i \in 1..Len(parser.calls) :
          /\ parser.calls[i].failed /\ parser.calls[i].from < AtEOF
          /\ parser.calls[i].thrownAt = parser.calls[i].from
          /\ parser.calls[i].to = parser.calls[i].from + 1
    /\ \E i \in 1..Len(parser.calls) :
          parser.calls[i].failed /\ parser.calls[i].from = AtEOF /\ parser.calls[i].to = AtEOF
    /\ \E i \in 1..Len(parser.calls) : ~parser.calls[i].failed

====
